---- MODULE Spec2Model ----
(***************************************************************************)
(* SMART-TPL: a template is parsed into a syntax tree, a generator         *)
(* (Bytecode: libjit, CCode: C source) lowers the tree to code that talks  *)
(* to the engine through the smart_tpl_* callbacks, and the callbacks act  *)
(* on a per-render Handler.                                                *)
(*                                                                         *)
(* The model has three layers:                                             *)
(*   - the value classes and the Data binding,                             *)
(*   - emission: the syntax tree drives the generator hooks, which append  *)
(*     instructions (native calls, branches, labels, arithmetic) to the    *)
(*     function being built and keep the emit-time value stack,            *)
(*   - run time: one action per callback / instruction kind, acting on     *)
(*     the Handler's fields.                                               *)
(* Byte strings are sequences of one-character strings.                    *)
(***************************************************************************)
EXTENDS Integers, Sequences, FiniteSets, TLC

VARIABLES
    tpl,                    \* the template source (its syntax tree) under test
    data,                   \* the Data object handed to process
    outencoding,            \* the encoding asked of Template::process
    now,                    \* std::time(NULL): the clock of the machine
    thread,                 \* the thread that is running
    parked,                 \* the other threads: what each holds while it waits
    executor,               \* "Bytecode" (JIT) or "Library" (compiled C code)
    phase,                  \* "idle" | "running" | "thrown" | "finished"
    code,                   \* the instructions of the executor's function
    pc,                     \* position in code
    regs,                   \* the run-time contents of the jit values
    _buffer,                \* Handler::_buffer
    _local_values,          \* Handler::_local_values
    _iterator_stack,        \* Handler::_iterator_stack
    _managed_local_values,  \* Handler::_managed_local_values
    _destroy_later,         \* Handler::_destroy_later
    _failed,                \* Handler::failed(): the failed flag
    DateValue_buffer,       \* DateValue::_buffer of the date value in the Data
    inside,                 \* the method the running thread is in the middle of
    results,                \* what each finished process call returned
    trace,                  \* history: the callback calls of this render
    steps,                  \* instructions executed by this render
    abi                     \* the last direct call of a callback (SpecABI)

vars == <<tpl, data, outencoding, now, thread, parked, executor, phase, code, pc, regs, _buffer, _local_values,
          _iterator_stack, _managed_local_values, _destroy_later, _failed, DateValue_buffer, inside, results, trace,
          steps, abi>>

(***************************************************************************)
(* Bounds                                                                  *)
(***************************************************************************)
MaxLen == 3        \* longest list bound in Data
MaxSteps == 60     \* instructions one render may execute before it is cut off
IntBits == 8       \* bits of the system int (32 in the build), scaled down
LongBits == 16     \* bits of numeric_t and long (64 in the build), scaled down
MaxRenders == 2    \* process calls made on one executor
MaxTime == 2       \* the clock stops here
NThreads == 2      \* threads that call process on the same template

(***************************************************************************)
(* Integers.  A value of a C integer type is stored as the integer it      *)
(* denotes; a conversion to a narrower type keeps the low bits.            *)
(***************************************************************************)
\* the value as a signed integer of bits bits
Signed(n, bits) == ((n + 2^(bits - 1)) % 2^bits) - 2^(bits - 1)

\* conversion to jit_type_sys_int / int
sys_int(n) == Signed(n, IntBits)

INT_MAX == 2^(IntBits - 1) - 1

\* the largest numeric_t
INT64_MAX == 2^(LongBits - 1) - 1

(***************************************************************************)
(* Byte strings                                                            *)
(***************************************************************************)
Digit == <<"0", "1", "2", "3", "4", "5", "6", "7", "8", "9">>

RECURSIVE DecimalNat(_)
DecimalNat(n) ==
    IF n < 10 THEN <<Digit[n + 1]>>
    ELSE DecimalNat(n \div 10) \o <<Digit[(n % 10) + 1]>>

Decimal(n) == IF n < 0 THEN <<"-">> \o DecimalNat(0 - n) ELSE DecimalNat(n)

DigitValue(c) == CHOOSE d \in 0..9 : Digit[d + 1] = c

IsDigit(c) == \E d \in 1..10 : Digit[d] = c

RECURSIVE ParseNat(_, _)
ParseNat(s, acc) ==
    IF s = <<>> \/ ~IsDigit(Head(s)) THEN acc
    ELSE ParseNat(Tail(s), acc * 10 + DigitValue(Head(s)))

ParseNumeric(s) ==
    IF s # <<>> /\ Head(s) = "-" THEN 0 - ParseNat(Tail(s), 0) ELSE ParseNat(s, 0)

IsPrefix(s, t) == Len(s) <= Len(t) /\ SubSeq(t, 1, Len(s)) = s

Last(s) == s[Len(s)]

(***************************************************************************)
(* Values.  nullptr is the null Value pointer; empty is the static         *)
(* EmptyValue of callbacks.cpp.                                            *)
(***************************************************************************)
nullptr == [k |-> "nullptr"]

empty == [k |-> "EmptyValue"]

NumericValue(n) == [k |-> "NumericValue", n |-> n]

StringValue(s) == [k |-> "StringValue", s |-> s]

BooleanValue(b) == [k |-> "BooleanValue", b |-> b]

BoolValue(b) == [k |-> "BoolValue", b |-> b]

ListValue(items) == [k |-> "ListValue", items |-> items]

MapValue(keys, items) == [k |-> "MapValue", keys |-> keys, items |-> items]

DateValue(format, timestamp) ==
    [k |-> "DateValue", format |-> format, timestamp |-> timestamp]

\* std::strftime for the formats of the model: %s is the number of seconds
\* since the epoch, every other character is copied
RECURSIVE strftime(_, _)
strftime(format, time) ==
    IF format = <<>> THEN <<>>
    ELSE IF Len(format) >= 2 /\ format[1] = "%" /\ format[2] = "s"
         THEN Decimal(time) \o strftime(SubSeq(format, 3, Len(format)), time)
         ELSE <<format[1]>> \o strftime(Tail(format), time)

\* the time a DateValue formats: its timestamp, the current time when that is 0
DateValue_time(v) == IF v.timestamp = 0 THEN now ELSE v.timestamp

\* DateValue::toString called while no other thread is in it: the string
\* that initializeDate leaves in _buffer
DateValue_toString(v) ==
    IF v.timestamp # 0 /\ DateValue_buffer # <<>>
    THEN DateValue_buffer
    ELSE strftime(v.format, DateValue_time(v))

BooleanValue_toString(v) ==
    IF v.b THEN <<"t", "r", "u", "e">> ELSE <<"f", "a", "l", "s", "e">>

BooleanValue_size(v) == IF v.b THEN 4 ELSE 5

BooleanValue_toNumeric(v) == 0

BoolValue_toNumeric(v) == IF v.b THEN 1 ELSE 0

Value_toString(v) ==
    CASE v.k = "NumericValue" -> Decimal(v.n)
      [] v.k = "StringValue" -> v.s
      [] v.k \in {"BooleanValue", "BoolValue"} -> BooleanValue_toString(v)
      [] v.k = "DateValue" -> DateValue_toString(v)
      [] OTHER -> <<>>

Value_size(v) ==
    CASE v.k = "BooleanValue" -> BooleanValue_size(v)
      [] OTHER -> Len(Value_toString(v))

Value_toNumeric(v) ==
    CASE v.k = "NumericValue" -> v.n
      [] v.k = "StringValue" -> ParseNumeric(v.s)
      [] v.k = "BooleanValue" -> BooleanValue_toNumeric(v)
      [] v.k = "BoolValue" -> BoolValue_toNumeric(v)
      [] v.k = "DateValue" -> DateValue_time(v)
      [] OTHER -> 0

Value_toBoolean(v) ==
    CASE v.k = "NumericValue" -> v.n # 0
      [] v.k = "StringValue" -> v.s # <<>>
      [] v.k \in {"BooleanValue", "BoolValue"} -> v.b
      [] v.k \in {"ListValue", "MapValue"} -> v.items # <<>>
      [] OTHER -> FALSE

Value_memberCount(v) ==
    CASE v.k \in {"ListValue", "MapValue"} -> Len(v.items)
      [] OTHER -> 0

\* member(size_t position)
Value_member_at(v, position) ==
    CASE v.k \in {"ListValue", "MapValue"} ->
            IF position >= 0 /\ position < Len(v.items)
            THEN v.items[position + 1] ELSE empty
      [] OTHER -> nullptr

\* member(const char *name, size_t size)
Value_member(v, name) ==
    CASE v.k = "MapValue" ->
            IF \E i \in 1..Len(v.keys) : v.keys[i] = name
            THEN v.items[CHOOSE i \in 1..Len(v.keys) : v.keys[i] = name]
            ELSE empty
      [] v.k = "ListValue" -> empty
      [] OTHER -> nullptr

Value_key(v, position) ==
    CASE v.k = "MapValue" ->
            IF position >= 0 /\ position < Len(v.keys)
            THEN StringValue(v.keys[position + 1]) ELSE empty
      [] v.k = "ListValue" -> empty
      [] OTHER -> nullptr

(***************************************************************************)
(* Data                                                                    *)
(***************************************************************************)
Data_value(d, name) == IF name \in DOMAIN d THEN d[name] ELSE nullptr

(***************************************************************************)
(* Handler (src/src/handler.h).  The local map is a function whose domain  *)
(* is the set of bound names; the iterator stack is a sequence of          *)
(* (first, second) pairs, the top being the last element.                  *)
(***************************************************************************)
\* a buffer that puts new data in front of what it holds
Handler_write_InFront(buf, buffer, size) == SubSeq(buffer, 1, size) \o buf

\* _buffer.append(buffer, size)
Handler_write(buf, buffer, size) == buf \o SubSeq(buffer, 1, size)

\* a lookup that asks the Data object before the local values
Handler_variable_DataFirst(lv, d, name) ==
    IF name \in DOMAIN d THEN d[name]
    ELSE IF name \in DOMAIN lv THEN lv[name] ELSE nullptr

Handler_variable(lv, d, name) ==
    IF name \in DOMAIN lv THEN lv[name] ELSE Data_value(d, name)

\* _local_values[key] = value
Handler_assign(lv, value, key) ==
    [n \in (DOMAIN lv) \cup {key} |-> IF n = key THEN value ELSE lv[n]]

\* _local_values.erase(_local_values.find(key))
Handler_erase(lv, key) == [n \in (DOMAIN lv) \ {key} |-> lv[n]]

\* if (keyvar_size > 0) { k = value->key(pos); if (k != nullptr) _local_values[keyvar] = k; }
Handler_iterate_key(lv, value, keyvar, pos) ==
    IF keyvar # "" /\ Value_key(value, pos) # nullptr
    THEN Handler_assign(lv, Value_key(value, pos), keyvar)
    ELSE lv

Handler_iterate_new(lv, its, value, key, keyvar) ==
    [ret |-> TRUE,
     lv  |-> Handler_iterate_key(Handler_assign(lv, Value_member_at(value, 0), key),
                                 value, keyvar, 0),
     its |-> Append(its, [first |-> key, second |-> 0])]

\* an iterate that does not look at the member count first
Handler_iterate_AnyCount(lv, its, value, key, keyvar) ==
    LET len == Value_memberCount(value) IN
    IF its = <<>> THEN Handler_iterate_new(lv, its, value, key, keyvar)
    ELSE LET iter == Last(its) IN
         IF key = iter.first
         THEN IF iter.second + 1 >= len
              THEN [ret |-> FALSE,
                    lv  |-> IF keyvar # ""
                            THEN Handler_erase(Handler_erase(lv, key), keyvar)
                            ELSE Handler_erase(lv, key),
                    its |-> SubSeq(its, 1, Len(its) - 1)]
              ELSE [ret |-> TRUE,
                    lv  |-> Handler_iterate_key(
                                Handler_assign(lv, Value_member_at(value, iter.second + 1), key),
                                value, keyvar, iter.second + 1),
                    its |-> [its EXCEPT ![Len(its)].second = @ + 1]]
         ELSE Handler_iterate_new(lv, its, value, key, keyvar)

Handler_iterate(lv, its, value, key, keyvar) ==
    LET len == Value_memberCount(value) IN
    IF len = 0 THEN [ret |-> FALSE, lv |-> lv, its |-> its]
    ELSE IF its = <<>> THEN Handler_iterate_new(lv, its, value, key, keyvar)
    ELSE LET iter == Last(its) IN
         IF key = iter.first
         THEN IF iter.second + 1 >= len
              THEN [ret |-> FALSE,
                    lv  |-> IF keyvar # ""
                            THEN Handler_erase(Handler_erase(lv, key), keyvar)
                            ELSE Handler_erase(lv, key),
                    its |-> SubSeq(its, 1, Len(its) - 1)]
              ELSE [ret |-> TRUE,
                    lv  |-> Handler_iterate_key(
                                Handler_assign(lv, Value_member_at(value, iter.second + 1), key),
                                value, keyvar, iter.second + 1),
                    its |-> [its EXCEPT ![Len(its)].second = @ + 1]]
         ELSE Handler_iterate_new(lv, its, value, key, keyvar)

(***************************************************************************)
(* Callbacks that return a value pointer (src/src/callbacks.cpp)           *)
(***************************************************************************)
smart_tpl_member(variable, name) ==
    LET result == Value_member(variable, name) IN
    IF result # nullptr THEN result ELSE empty

smart_tpl_member_at(variable, position) ==
    LET result == Value_member_at(variable, position) IN
    IF result # nullptr THEN result ELSE empty

smart_tpl_variable(lv, d, name) ==
    LET result == Handler_variable(lv, d, name) IN
    IF result # nullptr THEN result ELSE empty


\* the bytes the test templates are made of, in the order of their codes
Alphabet == <<"1", "2", "A", "B", "D", "N", "O", "a", "b", "d", "n", "o", "s">>

CharCode(c) == CHOOSE i \in 1..Len(Alphabet) : Alphabet[i] = c

\* strncmp of two buffers that both hold at least n bytes
strncmp(a, b, n) ==
    LET diff == {i \in 1..n : a[i] # b[i]} IN
    IF diff = {} THEN 0
    ELSE LET i == CHOOSE j \in diff : \A k \in diff : j <= k
         IN  IF CharCode(a[i]) < CharCode(b[i]) THEN 0 - 1 ELSE 1

smart_tpl_strcmp(a, a_len, b, b_len) ==
    IF a_len # b_len THEN 0 - 1
    ELSE IF strncmp(a, b, a_len) = 0 THEN 1 ELSE 0

smart_tpl_modify_numeric(modifier, value) == nullptr

smart_tpl_modify_string(modifier, value) == nullptr

(***************************************************************************)
(* Syntax tree.  Statements and expressions are records; s / t is the      *)
(* node class.                                                             *)
(***************************************************************************)
Raw(d) == [s |-> "raw", data |-> d]

Output(v) == [s |-> "output", var |-> v]

If(e, ifs, elses) == [s |-> "if", expr |-> e, ifs |-> ifs, elses |-> elses]

Foreach(v, key, value, stmts) ==
    [s |-> "foreach", var |-> v, key |-> key, value |-> value,
     stmts |-> stmts, haselse |-> FALSE, elses |-> <<>>]

ForeachElse(v, key, value, stmts, elses) ==
    [s |-> "foreach", var |-> v, key |-> key, value |-> value,
     stmts |-> stmts, haselse |-> TRUE, elses |-> elses]

Assign(key, e) == [s |-> "assign", key |-> key, expr |-> e]

\* an expression whose value is written
Write(e) == [s |-> "write", expr |-> e]

Var(name) == [t |-> "var", name |-> name]

Num(n) == [t |-> "num", value |-> n]

Bool(b) == [t |-> "bool", value |-> b]

Str(b) == [t |-> "str", value |-> b]

And(l, r) == [t |-> "and", left |-> l, right |-> r]

Or(l, r) == [t |-> "or", left |-> l, right |-> r]

Divide(l, r) == [t |-> "div", left |-> l, right |-> r]


Equals(l, r) == [t |-> "eq", left |-> l, right |-> r]

NotEquals(l, r) == [t |-> "ne", left |-> l, right |-> r]

Greater(l, r) == [t |-> "gt", left |-> l, right |-> r]


\* expression|m1|m2...: modifiers holds the names in source order
Filter(e, modifiers) == [t |-> "filter", expr |-> e, modifiers |-> modifiers]

Expression_type(e) ==
    CASE e.t \in {"var", "filter"} -> "Value"
      [] e.t \in {"num", "div"} -> "Numeric"
      [] e.t \in {"bool", "and", "or", "eq", "ne", "gt"} -> "Boolean"
      [] e.t = "str" -> "String"

(***************************************************************************)
(* Emission state: the function being built (code), the generator's        *)
(* emit-time value stack, the number of jit values and labels created, and *)
(* the message of the exception the generator threw ("" when none).  A jit *)
(* value is <<"c", v>> (a constant) or <<"r", n>> (the n-th temporary).    *)
(***************************************************************************)
NewFunction(gen) ==
    [gen |-> gen, code |-> <<>>, stack |-> <<>>, nv |-> 0, nl |-> 0, err |-> ""]

new_constant(v) == <<"c", v>>

insn(E, i) == [E EXCEPT !.code = Append(@, i)]

push(E, v) == [E EXCEPT !.stack = Append(@, v)]

\* the value Bytecode::pop returns
top(E) == IF E.stack = <<>> THEN new_constant(0) ELSE Last(E.stack)

\* the generator after Bytecode::pop
pop(E) ==
    IF E.stack = <<>>
    THEN [E EXCEPT !.err = IF @ = "" THEN "_stack is empty" ELSE @]
    ELSE [E EXCEPT !.stack = SubSeq(@, 1, Len(@) - 1)]

\* insn_call_native: the call's result is the temporary <<"r", nv>>
insn_call_native(E, fn, args) ==
    [E EXCEPT !.code = Append(@, [op |-> "call", fn |-> fn, args |-> args, dst |-> E.nv + 1]),
              !.nv = @ + 1]

result(E) == <<"r", E.nv>>

push_call(E, fn, args) ==
    LET E1 == insn_call_native(E, fn, args) IN push(E1, result(E1))

\* l op r on two jit values: a new temporary holding the result
insn_binary(E, op, l, r) ==
    [E EXCEPT !.code = Append(@, [op |-> op, l |-> l, r |-> r, dst |-> E.nv + 1]),
              !.nv = @ + 1]

throw(E, msg) == [E EXCEPT !.err = IF @ = "" THEN msg ELSE @]

(***************************************************************************)
(* The generator hooks and the tree nodes that drive them call each other. *)
(***************************************************************************)
\* Generate(E, node, as): the virtual call on a tree node; as names the
\* method: "statements", "statement", "pointer", "string", "numeric", "boolean"
RECURSIVE Generate(_, _, _)

(***************************************************************************)
(* Bytecode (src/src/bytecode.cpp)                                         *)
(***************************************************************************)
Bytecode_raw(E, d) ==
    insn_call_native(E, "smart_tpl_write", <<new_constant(d), new_constant(Len(d))>>)

Bytecode_output(E, variable) ==
    LET E1 == Generate(E, variable, "pointer")
        var == top(E1)
    IN  insn_call_native(pop(E1), "smart_tpl_output", <<var>>)

\* Bytecode::write: the expression as a string, size on top of the buffer
Bytecode_write(E, expression) ==
    LET E1 == Generate(E, expression, "string")
        size == top(E1)
        E2 == pop(E1)
        buffer == top(E2)
    IN  insn_call_native(pop(E2), "smart_tpl_write", <<buffer, size>>)

\* Bytecode::output(const Filter *)
Bytecode_output_filter(E, filter) ==
    LET E1 == Generate(E, filter, "string")
        var == top(E1)
    IN  insn_call_native(pop(E1), "smart_tpl_output", <<var>>)

Bytecode_condition_FallThrough(E, expression, ifstatements, elsestatements) ==
    LET elselabel == E.nl + 1
        endlabel == E.nl + 2
        E1 == Generate([E EXCEPT !.nl = @ + 2], expression, "boolean")
        E2 == insn(pop(E1), [op |-> "branch_if_not", v |-> top(E1), label |-> elselabel])
        E3 == Generate(E2, ifstatements, "statements")
        E5 == insn(E3, [op |-> "label", label |-> elselabel])
        E6 == IF elsestatements # <<>> THEN Generate(E5, elsestatements, "statements") ELSE E5
    IN  insn(E6, [op |-> "label", label |-> endlabel])

Bytecode_condition(E, expression, ifstatements, elsestatements) ==
    LET elselabel == E.nl + 1
        endlabel == E.nl + 2
        E1 == Generate([E EXCEPT !.nl = @ + 2], expression, "boolean")
        E2 == insn(pop(E1), [op |-> "branch_if_not", v |-> top(E1), label |-> elselabel])
        E3 == Generate(E2, ifstatements, "statements")
        E4 == insn(E3, [op |-> "branch", label |-> endlabel])
        E5 == insn(E4, [op |-> "label", label |-> elselabel])
        E6 == IF elsestatements # <<>> THEN Generate(E5, elsestatements, "statements") ELSE E5
    IN  insn(E6, [op |-> "label", label |-> endlabel])

Bytecode_varPointer(E, name) ==
    push_call(E, "smart_tpl_variable", <<new_constant(name)>>)

Bytecode_string(E, value) ==
    push(push(E, new_constant(value)), new_constant(Len(value)))

\* the constant is created with type jit_type_sys_int
Bytecode_numeric(E, value) == push(E, new_constant(sys_int(value)))

Bytecode_string_var(E, variable) ==
    LET E1 == Generate(E, variable, "pointer")
        var == top(E1)
        E2 == push_call(pop(E1), "smart_tpl_to_string", <<var>>)
    IN  push_call(E2, "smart_tpl_size", <<var>>)

Bytecode_numeric_var(E, variable) ==
    LET E1 == Generate(E, variable, "pointer")
    IN  push_call(pop(E1), "smart_tpl_to_numeric", <<top(E1)>>)

Bytecode_boolean_var(E, variable) ==
    LET E1 == Generate(E, variable, "pointer")
    IN  push_call(pop(E1), "smart_tpl_to_boolean", <<top(E1)>>)

Bytecode_divide(E, left, right) ==
    LET E1 == Generate(E, left, "numeric")
        l == top(E1)
        E2 == Generate(pop(E1), right, "numeric")
        r == top(E2)
        E3 == insn_binary(pop(E2), "div", l, r)
    IN  push(E3, result(E3))



\* the loop of Bytecode::modifiers over the modifiers that are left, the
\* latest value being on top of the stack
RECURSIVE Bytecode_modifiers_loop(_, _)
Bytecode_modifiers_loop(E, modifiers) ==
    IF modifiers = <<>> THEN E
    ELSE LET E1 == push_call(E, "smart_tpl_modifier", <<new_constant(Head(modifiers))>>)
             mod == top(E1)
             E2 == pop(E1)
             var == top(E2)
             E3 == push_call(pop(E2), "smart_tpl_modify_variable", <<mod, var>>)
         IN  Bytecode_modifiers_loop(E3, Tail(modifiers))

\* a chain that is applied from its last modifier to its first
Bytecode_modifiers_Reversed(E, modifiers, expression) ==
    IF expression.t = "var"
    THEN Bytecode_modifiers_loop(Generate(E, expression, "pointer"),
                                 [i \in 1..Len(modifiers) |->
                                     modifiers[Len(modifiers) + 1 - i]])
    ELSE E

Bytecode_modifiers(E, modifiers, expression) ==
    IF expression.t = "var"
    THEN Bytecode_modifiers_loop(Generate(E, expression, "pointer"), modifiers)
    ELSE E

\* a comparison that converts both operands to numbers whatever their types
Bytecode_equality_Coerces(E, op, left, right) ==
    LET E1 == Generate(E, left, "numeric")
        l == top(E1)
        E2 == Generate(pop(E1), right, "numeric")
        r == top(E2)
        E3 == insn_binary(pop(E2), op, l, r)
    IN  push(E3, result(E3))

\* equals and notEquals differ in the comparison they emit (op) only
Bytecode_equality(E, op, left, right) ==
    IF Expression_type(left) = "Numeric" /\ Expression_type(right) = "Numeric"
    THEN LET E1 == Generate(E, left, "numeric")
             l == top(E1)
             E2 == Generate(pop(E1), right, "numeric")
             r == top(E2)
             E3 == insn_binary(pop(E2), op, l, r)
         IN  push(E3, result(E3))
    ELSE IF Expression_type(left) = "String" /\ Expression_type(right) = "String"
    THEN LET E1 == Generate(E, left, "string")
             l_size == top(E1)
             l == top(pop(E1))
             E2 == Generate(pop(pop(E1)), right, "string")
             r_size == top(E2)
             r == top(pop(E2))
             E3 == insn_call_native(pop(pop(E2)), "smart_tpl_strcmp", <<l, l_size, r, r_size>>)
             cmp == result(E3)
             E4 == Bytecode_numeric(E3, 0)
             tru == top(E4)
             E5 == insn_binary(pop(E4), op, cmp, tru)
         IN  push(E5, result(E5))
    ELSE IF Expression_type(left) = "Boolean" /\ Expression_type(right) = "Boolean"
    THEN LET E1 == Generate(E, left, "boolean")
             l == top(E1)
             E2 == Generate(pop(E1), right, "boolean")
             r == top(E2)
             E3 == insn_binary(pop(E2), op, l, r)
         IN  push(E3, result(E3))
    ELSE throw(E, "Comparison between different types is currently not supported.")

Bytecode_equals(E, left, right) == Bytecode_equality(E, "eq", left, right)

Bytecode_notEquals(E, left, right) == Bytecode_equality(E, "ne", left, right)

Bytecode_greater(E, left, right) ==
    LET E1 == Generate(E, left, "numeric")
        l == top(E1)
        E2 == Generate(pop(E1), right, "numeric")
        r == top(E2)
        E3 == insn_binary(pop(E2), "gt", l, r)
    IN  push(E3, result(E3))

\* an and that computes both operands before it looks at the left one
Bytecode_booleanAnd_Eager(E, left, right) ==
    LET res == E.nv + 1
        rightlabel == E.nl + 1
        endlabel == E.nl + 2
        E1 == Generate([E EXCEPT !.nv = @ + 1, !.nl = @ + 2], left, "boolean")
        l == top(E1)
        E2 == Generate(pop(E1), right, "boolean")
        r == top(E2)
        E3 == insn(pop(E2), [op |-> "branch_if", v |-> l, label |-> rightlabel])
        E4 == insn(E3, [op |-> "store", dst |-> res, v |-> l])
        E5 == insn(E4, [op |-> "branch", label |-> endlabel])
        E6 == insn(E5, [op |-> "label", label |-> rightlabel])
        E7 == insn(E6, [op |-> "store", dst |-> res, v |-> r])
        E8 == insn(E7, [op |-> "label", label |-> endlabel])
    IN  push(E8, <<"r", res>>)

Bytecode_booleanAnd(E, left, right) ==
    LET res == E.nv + 1
        rightlabel == E.nl + 1
        endlabel == E.nl + 2
        E1 == Generate([E EXCEPT !.nv = @ + 1, !.nl = @ + 2], left, "boolean")
        l == top(E1)
        E2 == insn(pop(E1), [op |-> "branch_if", v |-> l, label |-> rightlabel])
        E3 == insn(E2, [op |-> "store", dst |-> res, v |-> l])
        E4 == insn(E3, [op |-> "branch", label |-> endlabel])
        E5 == insn(E4, [op |-> "label", label |-> rightlabel])
        E6 == Generate(E5, right, "boolean")
        E7 == insn(pop(E6), [op |-> "store", dst |-> res, v |-> top(E6)])
        E8 == insn(E7, [op |-> "label", label |-> endlabel])
    IN  push(E8, <<"r", res>>)

Bytecode_booleanOr(E, left, right) ==
    LET res == E.nv + 1
        rightlabel == E.nl + 1
        endlabel == E.nl + 2
        E1 == Generate([E EXCEPT !.nv = @ + 1, !.nl = @ + 2], left, "boolean")
        l == top(E1)
        E2 == insn(pop(E1), [op |-> "branch_if_not", v |-> l, label |-> rightlabel])
        E3 == insn(E2, [op |-> "store", dst |-> res, v |-> l])
        E4 == insn(E3, [op |-> "branch", label |-> endlabel])
        E5 == insn(E4, [op |-> "label", label |-> rightlabel])
        E6 == Generate(E5, right, "boolean")
        E7 == insn(pop(E6), [op |-> "store", dst |-> res, v |-> top(E6)])
        E8 == insn(E7, [op |-> "label", label |-> endlabel])
    IN  push(E8, <<"r", res>>)

\* foreach(variable, key, value, statements): the hook takes no else
\* statements.  bytecode.cpp names the iteration callbacks create_iterator,
\* valid_iterator, iterator_key, iterator_value and iterator_next, which
\* callbacks.cpp does not define; the iteration the runtime implements is
\* smart_tpl_member_iter (Handler::iterate), which tests, advances and binds
\* the key and value variables in one call.  The hook's loop is kept (source
\* evaluated once, label_while, branch_if_not to label_after_while, the
\* statements, branch back) and its iteration calls are that one call.
Bytecode_foreach(E, variable, key, value, statements) ==
    LET E1 == Generate(E, variable, "pointer")
        var == top(E1)
        label_while == E.nl + 1
        label_after_while == E.nl + 2
        E2 == insn([pop(E1) EXCEPT !.nl = @ + 2], [op |-> "label", label |-> label_while])
        E3 == insn_call_native(E2, "smart_tpl_member_iter",
                               <<var, new_constant(value), new_constant(key)>>)
        E4 == insn(E3, [op |-> "branch_if_not", v |-> result(E3), label |-> label_after_while])
        E5 == Generate(E4, statements, "statements")
        E6 == insn(E5, [op |-> "branch", label |-> label_while])
    IN  insn(E6, [op |-> "label", label |-> label_after_while])

Bytecode_assign(E, key, expression) ==
    CASE Expression_type(expression) = "Numeric" ->
            LET E1 == Generate(E, expression, "numeric")
            IN  insn_call_native(pop(E1), "smart_tpl_assign_numeric",
                                 <<top(E1), new_constant(key)>>)
      [] Expression_type(expression) = "String" ->
            LET E1 == Generate(E, expression, "string")
                size == top(E1)
                E2 == pop(E1)
            IN  insn_call_native(pop(E2), "smart_tpl_assign_string",
                                 <<top(E2), size, new_constant(key)>>)
      [] Expression_type(expression) = "Boolean" ->
            LET E1 == Generate(E, expression, "boolean")
            IN  insn_call_native(pop(E1), "smart_tpl_assign_boolean",
                                 <<top(E1), new_constant(key)>>)
      [] Expression_type(expression) = "Value" ->
            IF expression.t = "var"
            THEN LET E1 == Generate(E, expression, "pointer")
                 IN  insn_call_native(pop(E1), "smart_tpl_assign",
                                      <<top(E1), new_constant(key)>>)
            ELSE throw(E, "Unsupported assign.")

(***************************************************************************)
(* CCode: the C source generator.  Every hook writes the C statement or    *)
(* expression that makes the same callback call; the meaning of the C text *)
(* is given as instructions of the same form as the JIT's.                 *)
(***************************************************************************)
CCode_raw(E, d) ==
    insn_call_native(E, "smart_tpl_write", <<new_constant(d), new_constant(Len(d))>>)

CCode_write(E, expression) == Bytecode_write(E, expression)

CCode_output(E, variable) ==
    LET E1 == Generate(E, variable, "pointer")
    IN  insn_call_native(pop(E1), "smart_tpl_output", <<top(E1)>>)

\* if (<expression>) { <ifstatements> } else { <elsestatements> }
CCode_condition(E, expression, ifstatements, elsestatements) ==
    LET elselabel == E.nl + 1
        endlabel == E.nl + 2
        E1 == Generate([E EXCEPT !.nl = @ + 2], expression, "boolean")
        E2 == insn(pop(E1), [op |-> "branch_if_not", v |-> top(E1), label |-> elselabel])
        E3 == insn(Generate(E2, ifstatements, "statements"), [op |-> "branch", label |-> endlabel])
        E4 == Generate(insn(E3, [op |-> "label", label |-> elselabel]), elsestatements, "statements")
    IN  insn(E4, [op |-> "label", label |-> endlabel])

CCode_varPointer(E, name) ==
    push_call(E, "smart_tpl_variable", <<new_constant(name)>>)

\* "bytes",size
CCode_string(E, value) ==
    push(push(E, new_constant(value)), new_constant(Len(value)))

\* the hook's parameter is an int
CCode_numeric(E, value) == push(E, new_constant(sys_int(value)))

CCode_string_var(E, variable) ==
    LET E1 == Generate(E, variable, "pointer")
        E2 == push_call(pop(E1), "smart_tpl_to_string", <<top(E1)>>)
    IN  push_call(E2, "smart_tpl_size", <<top(E1)>>)

CCode_numeric_var(E, variable) ==
    LET E1 == Generate(E, variable, "pointer")
    IN  push_call(pop(E1), "smart_tpl_to_numeric", <<top(E1)>>)

CCode_boolean_var(E, variable) ==
    LET E1 == Generate(E, variable, "pointer")
    IN  push_call(pop(E1), "smart_tpl_to_boolean", <<top(E1)>>)

\* (<left>) / (<right>)
CCode_divide(E, left, right) ==
    LET E1 == Generate(E, left, "numeric")
        E2 == Generate(pop(E1), right, "numeric")
        E3 == insn_binary(pop(E2), "div", top(E1), top(E2))
    IN  push(E3, result(E3))



CCode_output_filter(E, filter) ==
    LET E1 == Generate(E, filter, "string")
    IN  insn_call_native(pop(E1), "smart_tpl_output", <<top(E1)>>)

\* smart_tpl_modify_variable(userdata, smart_tpl_modifier(userdata, "m2", 2),
\* smart_tpl_modify_variable(userdata, smart_tpl_modifier(userdata, "m1", 2), <expression>))
CCode_modifiers(E, modifiers, expression) ==
    IF expression.t = "var"
    THEN Bytecode_modifiers_loop(Generate(E, expression, "pointer"), modifiers)
    ELSE E

\* the comparisons: the same static cases and the same callback calls as the
\* JIT's, written as C expressions
CCode_equals(E, left, right) == Bytecode_equality(E, "eq", left, right)

CCode_notEquals(E, left, right) == Bytecode_equality(E, "ne", left, right)

CCode_greater(E, left, right) == Bytecode_greater(E, left, right)

\* (<left>) && (<right>), (<left>) || (<right>): C evaluates the right
\* operand only when the left one does not decide
CCode_boolean(E, branch, left, right) ==
    LET res == E.nv + 1
        rightlabel == E.nl + 1
        endlabel == E.nl + 2
        E1 == Generate([E EXCEPT !.nv = @ + 1, !.nl = @ + 2], left, "boolean")
        E2 == insn(pop(E1), [op |-> branch, v |-> top(E1), label |-> rightlabel])
        E3 == insn(E2, [op |-> "store", dst |-> res, v |-> top(E1)])
        E4 == insn(E3, [op |-> "branch", label |-> endlabel])
        E5 == Generate(insn(E4, [op |-> "label", label |-> rightlabel]), right, "boolean")
        E6 == insn(pop(E5), [op |-> "store", dst |-> res, v |-> top(E5)])
    IN  push(insn(E6, [op |-> "label", label |-> endlabel]), <<"r", res>>)

CCode_booleanAnd(E, left, right) == CCode_boolean(E, "branch_if", left, right)

CCode_booleanOr(E, left, right) == CCode_boolean(E, "branch_if_not", left, right)

\* for (;member_iter(...);) { <statements> }  and, when the loop never ran,
\* the foreachelse statements
CCode_foreach(E, variable, key, value, statements, elsestatements) ==
    LET E1 == Generate(E, variable, "pointer")
        var == top(E1)
        never == E1.nv + 1
        label_for == E.nl + 1
        label_after == E.nl + 2
        label_end == E.nl + 3
        E2 == insn([pop(E1) EXCEPT !.nv = @ + 1, !.nl = @ + 3],
                   [op |-> "store", dst |-> never, v |-> new_constant(1)])
        E3 == insn_call_native(insn(E2, [op |-> "label", label |-> label_for]),
                               "smart_tpl_member_iter",
                               <<var, new_constant(value), new_constant(key)>>)
        E4 == insn(E3, [op |-> "branch_if_not", v |-> result(E3), label |-> label_after])
        E5 == insn(E4, [op |-> "store", dst |-> never, v |-> new_constant(0)])
        E6 == insn(Generate(E5, statements, "statements"), [op |-> "branch", label |-> label_for])
        E7 == insn(E6, [op |-> "label", label |-> label_after])
        E8 == insn(E7, [op |-> "branch_if_not", v |-> <<"r", never>>, label |-> label_end])
        E9 == Generate(E8, elsestatements, "statements")
    IN  insn(E9, [op |-> "label", label |-> label_end])

CCode_assign(E, key, expression) ==
    CASE Expression_type(expression) = "Numeric" ->
            LET E1 == Generate(E, expression, "numeric")
            IN  insn_call_native(pop(E1), "smart_tpl_assign_numeric",
                                 <<top(E1), new_constant(key)>>)
      [] Expression_type(expression) = "String" ->
            LET E1 == Generate(E, expression, "string")
                E2 == pop(E1)
            IN  insn_call_native(pop(E2), "smart_tpl_assign_string",
                                 <<top(E2), top(E1), new_constant(key)>>)
      [] Expression_type(expression) = "Boolean" ->
            LET E1 == Generate(E, expression, "boolean")
            IN  insn_call_native(pop(E1), "smart_tpl_assign_boolean",
                                 <<top(E1), new_constant(key)>>)
      [] Expression_type(expression) = "Value" ->
            LET E1 == Generate(E, expression, "pointer")
            IN  insn_call_native(pop(E1), "smart_tpl_assign",
                                 <<top(E1), new_constant(key)>>)

(***************************************************************************)
(* Generator: the virtual hooks, dispatched on the generator's class       *)
(***************************************************************************)
Generator_raw(E, d) ==
    IF E.gen = "CCode" THEN CCode_raw(E, d) ELSE Bytecode_raw(E, d)

Generator_varPointer(E, name) ==
    IF E.gen = "CCode" THEN CCode_varPointer(E, name) ELSE Bytecode_varPointer(E, name)

Generator_string(E, value) ==
    IF E.gen = "CCode" THEN CCode_string(E, value) ELSE Bytecode_string(E, value)

Generator_numeric(E, value) ==
    IF E.gen = "CCode" THEN CCode_numeric(E, value) ELSE Bytecode_numeric(E, value)

Generator_write(E, expression) ==
    IF E.gen = "CCode" THEN CCode_write(E, expression) ELSE Bytecode_write(E, expression)

Generator_output(E, variable) ==
    IF E.gen = "CCode" THEN CCode_output(E, variable) ELSE Bytecode_output(E, variable)

Generator_condition(E, e, ifs, elses) ==
    IF E.gen = "CCode" THEN CCode_condition(E, e, ifs, elses)
    ELSE Bytecode_condition(E, e, ifs, elses)

Generator_foreach(E, st) ==
    IF E.gen = "CCode"
    THEN CCode_foreach(E, st.var, st.key, st.value, st.stmts, st.elses)
    ELSE Bytecode_foreach(E, st.var, st.key, st.value, st.stmts)

Generator_assign(E, key, e) ==
    IF E.gen = "CCode" THEN CCode_assign(E, key, e) ELSE Bytecode_assign(E, key, e)

Generator_string_var(E, v) ==
    IF E.gen = "CCode" THEN CCode_string_var(E, v) ELSE Bytecode_string_var(E, v)

Generator_numeric_var(E, v) ==
    IF E.gen = "CCode" THEN CCode_numeric_var(E, v) ELSE Bytecode_numeric_var(E, v)

Generator_boolean_var(E, v) ==
    IF E.gen = "CCode" THEN CCode_boolean_var(E, v) ELSE Bytecode_boolean_var(E, v)

Generator_divide(E, l, r) ==
    IF E.gen = "CCode" THEN CCode_divide(E, l, r) ELSE Bytecode_divide(E, l, r)


Generator_equals(E, l, r) ==
    IF E.gen = "CCode" THEN CCode_equals(E, l, r) ELSE Bytecode_equals(E, l, r)

Generator_notEquals(E, l, r) ==
    IF E.gen = "CCode" THEN CCode_notEquals(E, l, r) ELSE Bytecode_notEquals(E, l, r)

Generator_greater(E, l, r) ==
    IF E.gen = "CCode" THEN CCode_greater(E, l, r) ELSE Bytecode_greater(E, l, r)


Generator_output_filter(E, filter) ==
    IF E.gen = "CCode" THEN CCode_output_filter(E, filter) ELSE Bytecode_output_filter(E, filter)

Generator_modifiers(E, modifiers, e) ==
    IF E.gen = "CCode" THEN CCode_modifiers(E, modifiers, e)
    ELSE Bytecode_modifiers(E, modifiers, e)

Generator_booleanAnd(E, l, r) ==
    IF E.gen = "CCode" THEN CCode_booleanAnd(E, l, r) ELSE Bytecode_booleanAnd(E, l, r)

Generator_booleanOr(E, l, r) ==
    IF E.gen = "CCode" THEN CCode_booleanOr(E, l, r) ELSE Bytecode_booleanOr(E, l, r)

(***************************************************************************)
(* The tree nodes: which hook each node calls                              *)
(***************************************************************************)
Variable_pointer(E, v) == Generator_varPointer(E, v.name)

\* Filter::pointer and Filter::string
Filter_pointer(E, f) == Generator_modifiers(E, f.modifiers, f.expr)

Expression_string(E, e) ==
    CASE e.t = "var" -> Generator_string_var(E, e)
      [] e.t = "filter" -> Filter_pointer(E, e)
      [] e.t = "str" -> Generator_string(E, e.value)
      [] e.t = "bool" -> Generator_string(E, <<>>)
      [] e.t = "num" -> Generator_string(E, Decimal(e.value))
      [] OTHER -> E

Expression_numeric(E, e) ==
    CASE e.t = "var" -> Generator_numeric_var(E, e)
      [] e.t = "num" -> Generator_numeric(E, e.value)
      [] e.t = "bool" -> Generator_numeric(E, IF e.value THEN 1 ELSE 0)
      [] e.t = "str" -> Generator_numeric(E, 0)
      [] e.t = "and" -> Generator_booleanAnd(E, e.left, e.right)
      [] e.t = "or" -> Generator_booleanOr(E, e.left, e.right)
      [] e.t = "div" -> Generator_divide(E, e.left, e.right)
      [] e.t = "eq" -> Generator_equals(E, e.left, e.right)
      [] e.t = "ne" -> Generator_notEquals(E, e.left, e.right)
      [] e.t = "gt" -> Generator_greater(E, e.left, e.right)
      [] e.t = "filter" -> E

Expression_boolean(E, e) ==
    CASE e.t = "var" -> Generator_boolean_var(E, e)
      [] e.t = "num" -> Generator_numeric(E, e.value)
      [] e.t = "bool" -> Generator_numeric(E, IF e.value THEN 1 ELSE 0)
      [] e.t = "str" -> Generator_numeric(E, 0)
      [] e.t = "and" -> Generator_booleanAnd(E, e.left, e.right)
      [] e.t = "or" -> Generator_booleanOr(E, e.left, e.right)
      [] e.t = "div" -> Generator_divide(E, e.left, e.right)
      [] e.t = "eq" -> Generator_equals(E, e.left, e.right)
      [] e.t = "ne" -> Generator_notEquals(E, e.left, e.right)
      [] e.t = "gt" -> Generator_greater(E, e.left, e.right)
      [] e.t = "filter" -> E

Statement_generate(E, st) ==
    CASE st.s = "raw" -> Generator_raw(E, st.data)
      [] st.s = "output" ->
            IF st.var.t = "filter" THEN Generator_output_filter(E, st.var)
            ELSE Generator_output(E, st.var)
      [] st.s = "if" -> Generator_condition(E, st.expr, st.ifs, st.elses)
      [] st.s = "foreach" -> Generator_foreach(E, st)
      [] st.s = "assign" -> Generator_assign(E, st.key, st.expr)
      [] st.s = "write" -> Generator_write(E, st.expr)

Generate(E, node, as) ==
    CASE as = "statements" ->
            IF node = <<>> THEN E
            ELSE Generate(Generate(E, Head(node), "statement"), Tail(node), "statements")
      [] as = "statement" -> Statement_generate(E, node)
      [] as = "pointer" ->
            IF node.t = "filter" THEN Filter_pointer(E, node) ELSE Variable_pointer(E, node)
      [] as = "string" -> Expression_string(E, node)
      [] as = "numeric" -> Expression_numeric(E, node)
      [] as = "boolean" -> Expression_boolean(E, node)

\* Bytecode::Bytecode: generate the function from the tree
Bytecode(tree) == Generate(NewFunction("Bytecode"), tree, "statements")

\* CCode::CCode, compiled into a shared library and loaded
Library(tree) == Generate(NewFunction("CCode"), tree, "statements")

(***************************************************************************)
(* Templates under test (test/runtime.cpp and variations of them)          *)
(***************************************************************************)
T_ForEach ==
    <<Foreach(Var("list"), "", "item", <<Raw(<<"[">>), Output(Var("item")), Raw(<<"]">>)>>)>>

T_ForEachWithKeys ==
    <<Foreach(Var("map"), "key", "value",
              <<Output(Var("key")), Raw(<<"=">>), Output(Var("value")), Raw(<<";">>)>>)>>

T_ForEachElse ==
    <<ForeachElse(Var("list"), "", "item", <<Raw(<<"b">>)>>, <<Raw(<<"e">>)>>)>>

T_ForEachWithKeysElse ==
    <<ForeachElse(Var("map"), "key", "value", <<Raw(<<"b">>)>>, <<Raw(<<"e">>)>>)>>

T_AssigningInForEach ==
    <<Foreach(Var("list"), "", "item", <<Assign("output", Var("item"))>>),
      Output(Var("output"))>>

T_Nested ==
    <<Foreach(Var("list"), "", "item",
              <<Foreach(Var("inner"), "", "sub", <<Output(Var("sub"))>>),
                Output(Var("item")), Raw(<<";">>)>>)>>

T_NestedSameName ==
    <<Foreach(Var("list"), "", "item",
              <<Foreach(Var("inner"), "", "item", <<Raw(<<"x">>)>>), Raw(<<"y">>)>>)>>

T_Shadow ==
    <<Assign("item", Num(7)),
      Foreach(Var("list"), "", "item", <<Output(Var("item"))>>),
      Output(Var("item"))>>

T_NotLoopable ==
    <<Assign("output", Num(1)), Raw(<<"A">>),
      Foreach(Var("str"), "key", "item", <<Raw(<<"x">>)>>),
      Raw(<<"B">>), Output(Var("output"))>>

T_NestedNotLoopable ==
    <<Foreach(Var("list"), "", "item",
              <<Foreach(Var("str"), "", "sub", <<Raw(<<"x">>)>>), Output(Var("item"))>>)>>

T_Assigning ==
    <<Output(Var("var")), Raw(<<"-">>), Assign("var", Num(1)), Raw(<<"-">>), Output(Var("var"))>>

T_AssignAgain ==
    <<Assign("var", Num(1)), Output(Var("var")),
      Assign("var", Str(<<"a", "b">>)), Output(Var("var")),
      Assign("var", Bool(TRUE)), Output(Var("var")),
      Assign("copy", Var("var")), Assign("var", Num(2)),
      Output(Var("copy")), Output(Var("var"))>>

T_AssignOverData ==
    <<Output(Var("bound")), Assign("bound", Num(2)), Output(Var("bound")),
      Raw(<<"x">>), Output(Var("does_not_exist")), Raw(<<"y">>)>>

T_If == <<If(Var("a"), <<Raw(<<"T">>)>>, <<>>)>>

T_And == <<If(And(Var("a"), Var("b")), <<Raw(<<"T">>)>>, <<Raw(<<"F">>)>>)>>

T_Or == <<If(Or(Var("a"), Var("b")), <<Raw(<<"T">>)>>, <<Raw(<<"F">>)>>)>>

T_AndDivide ==
    <<If(And(Var("a"), Divide(Var("n"), Var("z"))), <<Raw(<<"T">>)>>, <<Raw(<<"F">>)>>)>>

T_OrDivide ==
    <<If(Or(Var("a"), Divide(Var("n"), Var("z"))), <<Raw(<<"T">>)>>, <<Raw(<<"F">>)>>)>>

\* {if $a}T{elseif $b}F{/if}: the elseif is an if statement that is the
\* whole else part of the first one
T_IfElse ==
    <<If(Var("a"), <<Raw(<<"T">>)>>, <<If(Var("b"), <<Raw(<<"F">>)>>, <<>>)>>)>>

\* {if $a}T{elseif $b}F{else}E{/if}
T_IfElseIfElse ==
    <<If(Var("a"), <<Raw(<<"T">>)>>,
         <<If(Var("b"), <<Raw(<<"F">>)>>, <<Raw(<<"E">>)>>)>>)>>

\* {if $a}T{elseif $b}F{elseif $z}G{/if}
T_IfElseIfElseIf ==
    <<If(Var("a"), <<Raw(<<"T">>)>>,
         <<If(Var("b"), <<Raw(<<"F">>)>>,
              <<If(Var("z"), <<Raw(<<"G">>)>>, <<>>)>>)>>)>>

ChainTemplates == {T_IfElse, T_IfElseIfElse, T_IfElseIfElseIf}


\* {if "a" == "b"}t{else}f{/if} and the same with !=
T_StringComparisonEquals(a, b) ==
    <<If(Equals(Str(a), Str(b)), <<Raw(<<"t">>)>>, <<Raw(<<"f">>)>>)>>

T_StringComparisonNotEquals(a, b) ==
    <<If(NotEquals(Str(a), Str(b)), <<Raw(<<"t">>)>>, <<Raw(<<"f">>)>>)>>

\* {if 1 == 2}t{else}f{/if}
T_NumericComparison(m, n) ==
    <<If(Equals(Num(m), Num(n)), <<Raw(<<"t">>)>>, <<Raw(<<"f">>)>>)>>

\* {if true == false}t{else}f{/if}
T_BooleanComparison(a, b) ==
    <<If(Equals(Bool(a), Bool(b)), <<Raw(<<"t">>)>>, <<Raw(<<"f">>)>>)>>

\* the strings compared: empty, of different lengths, and two different
\* strings of the same length
Strings == {<<>>, <<"s">>, <<"s", "1">>, <<"s", "2">>}

\* {if "s"}T{else}F{/if}={if $v}T{else}F{/if}
T_StringCondition(str) ==
    <<If(Str(str), <<Raw(<<"T">>)>>, <<Raw(<<"F">>)>>), Raw(<<"=">>),
      If(Var("v"), <<Raw(<<"T">>)>>, <<Raw(<<"F">>)>>)>>

\* {if "s" > n}T{else}F{/if}={if $v > n}T{else}F{/if}
T_StringNumber(str, n) ==
    <<If(Greater(Str(str), Num(n)), <<Raw(<<"T">>)>>, <<Raw(<<"F">>)>>), Raw(<<"=">>),
      If(Greater(Var("v"), Num(n)), <<Raw(<<"T">>)>>, <<Raw(<<"F">>)>>)>>

\* {true}={$v}
T_BooleanOutput(b) == <<Write(Bool(b)), Raw(<<"=">>), Output(Var("v"))>>

\* the bytes of the string literals that stand next to a variable
LiteralStrings == {<<>>, <<"s">>, <<"1">>, <<"2">>}

\* a literal next to a variable that holds the same value
LiteralCases ==
    {<<T_StringCondition(str), [n \in {"v"} |-> StringValue(str)]>> : str \in LiteralStrings}
        \cup {<<T_StringNumber(str, n), [x \in {"v"} |-> StringValue(str)]>> :
                    str \in LiteralStrings, n \in 0..1}
        \cup {<<T_BooleanOutput(b), [n \in {"v"} |-> BoolValue(b)]>> : b \in BOOLEAN}
        \cup {<<T_BooleanOutput(b), [n \in {"v"} |-> BooleanValue(b)]>> : b \in BOOLEAN}

LiteralTemplates ==
    {T_StringComparisonEquals(a, b) : a \in Strings, b \in Strings}
        \cup {T_StringComparisonNotEquals(a, b) : a \in Strings, b \in Strings}
        \cup {T_NumericComparison(m, n) : m \in 1..2, n \in 1..2}
        \cup {T_BooleanComparison(a, b) : a \in BOOLEAN, b \in BOOLEAN}

\* {if $var == 1}t{else}f{/if}
T_CompareVarConstantNumeric ==
    <<If(Equals(Var("var"), Num(1)), <<Raw(<<"t">>)>>, <<Raw(<<"f">>)>>)>>

\* {if $var == true}t{else}f{/if}
T_CompareVarConstantBoolean ==
    <<If(Equals(Var("var"), Bool(TRUE)), <<Raw(<<"t">>)>>, <<Raw(<<"f">>)>>)>>

\* {if $var == "s1"}t{else}f{/if}
T_CompareVarConstantString ==
    <<If(Equals(Var("var"), Str(<<"s", "1">>)), <<Raw(<<"t">>)>>, <<Raw(<<"f">>)>>)>>

\* {if $var == $var2}t{else}f{/if}
T_CompareVarVar ==
    <<If(Equals(Var("var"), Var("var2")), <<Raw(<<"t">>)>>, <<Raw(<<"f">>)>>)>>

\* {if 1 == "s"}t{else}f{/if} and the like: literals of two different types
MixedTemplates ==
    {<<If(Equals(Num(1), Str(<<"s">>)), <<Raw(<<"t">>)>>, <<Raw(<<"f">>)>>)>>,
     <<If(NotEquals(Bool(TRUE), Num(1)), <<Raw(<<"t">>)>>, <<Raw(<<"f">>)>>)>>,
     <<If(Equals(Str(<<"s">>), Bool(TRUE)), <<Raw(<<"t">>)>>, <<Raw(<<"f">>)>>)>>}

CompareTemplates ==
    {T_CompareVarConstantNumeric, T_CompareVarConstantBoolean,
     T_CompareVarConstantString, T_CompareVarVar}


\* {if $int64 > 2147483647}t{else}f{/if}, for a literal n
T_Int64(n) ==
    <<If(Greater(Var("int64"), Num(n)), <<Raw(<<"t">>)>>, <<Raw(<<"f">>)>>)>>

\* {assign $int64 / 1 to $x}{$x}
T_AssignInt64 == <<Assign("x", Divide(Var("int64"), Num(1))), Output(Var("x"))>>

Int64Templates == {T_Int64(INT_MAX), T_Int64(INT_MAX + 1), T_AssignInt64}


\* {if 1/0}T{else}F{/if}, for literals l and r
T_IfDivide(l, r) ==
    <<If(Divide(Num(l), Num(r)), <<Raw(<<"T">>)>>, <<Raw(<<"F">>)>>)>>

\* {if $n/$z}T{else}F{/if}
T_IfDivideVariables ==
    <<If(Divide(Var("n"), Var("z")), <<Raw(<<"T">>)>>, <<Raw(<<"F">>)>>)>>

\* x{if $n/$z}T{else}F{/if}y
T_WriteThenDivide ==
    <<Raw(<<"x">>),
      If(Divide(Var("n"), Var("z")), <<Raw(<<"T">>)>>, <<Raw(<<"F">>)>>),
      Raw(<<"y">>)>>

DivideTemplates ==
    {T_WriteThenDivide, T_IfDivide(1, 0), T_IfDivide(6, 2), T_IfDivide(0 - INT_MAX - 1, 0 - 1),
     T_IfDivide(0 - INT_MAX, 0 - 1), T_IfDivideVariables}


\* {$v|m1|m2...}
T_Modifiers(chain) == <<Output(Filter(Var("v"), chain))>>

\* chains of registered modifiers
Chains ==
    {<<"toupper">>, <<"tolower">>, <<"toupper", "tolower">>, <<"tolower", "toupper">>,
     <<"toupper", "tolower", "toupper">>}

\* chains that name a modifier no Data has
UnregisteredChains == {<<"nosuch">>, <<"toupper", "nosuch">>, <<"nosuch", "tolower">>}

ModifierTemplates == {T_Modifiers(chain) : chain \in Chains \cup UnregisteredChains}

\* chains with the application's modifier in them
DefaultTemplates ==
    {T_Modifiers(chain) : chain \in {<<"default">>, <<"toupper", "default">>,
                                     <<"default", "toupper">>}}

\* {"aB"|toupper}: the base expression is not a variable
T_ModifiersLiteral == <<Output(Filter(Str(<<"a", "B">>), <<"toupper">>))>>


\* <{$v}
T_Escape == <<Raw(<<"<">>), Output(Var("v"))>>

\* <{$v|toupper}
T_EscapeFilter == <<Raw(<<"<">>), Output(Filter(Var("v"), <<"toupper">>))>>

EscapeTemplates == {T_Escape, T_EscapeFilter}

\* at {$date}
T_Date == <<Raw(<<"a", "t">>), Output(Var("date"))>>

DateTemplates == {T_Date}

LoopTemplates ==
    {T_ForEach, T_ForEachWithKeys, T_ForEachElse, T_ForEachWithKeysElse,
     T_AssigningInForEach, T_Nested, T_NestedSameName, T_Shadow,
     T_NotLoopable, T_NestedNotLoopable}

AssignTemplates == {T_Assigning, T_AssignAgain, T_AssignOverData}

ConditionTemplates == {T_If, T_And, T_Or, T_AndDivide, T_OrDivide}

(***************************************************************************)
(* Data objects under test                                                 *)
(***************************************************************************)
NotLoopable == StringValue(<<"N", "o">>)

ListOf(n) == ListValue([i \in 1..n |-> NumericValue(i - 1)])

TheMap == MapValue(<< <<"1">>, <<"2">> >>, <<NumericValue(1), NumericValue(2)>>)

LoopData(l, m, i) ==
    [n \in {"list", "map", "inner", "str"} |->
        CASE n = "list" -> l [] n = "map" -> m [] n = "inner" -> i [] n = "str" -> NotLoopable]

LoopDatas ==
    {LoopData(l, m, i) : l \in {ListOf(n) : n \in 1..MaxLen} \cup {NotLoopable},
                         m \in {TheMap, ListOf(2), NotLoopable},
                         i \in {ListOf(1), ListOf(2)}}

NoData == [n \in {} |-> nullptr]

\* an empty _destroy_later
NoneToDestroy == [m \in {} |-> {}]

AssignDatas == {NoData, [n \in {"bound"} |-> StringValue(<<"d">>)]}

ConditionData(a, b, n, z) ==
    [x \in {"a", "b", "n", "z"} |->
        CASE x = "a" -> BoolValue(a) [] x = "b" -> BoolValue(b)
          [] x = "n" -> NumericValue(n) [] x = "z" -> NumericValue(z)]

ConditionDatas ==
    {ConditionData(a, b, n, z) : a \in BOOLEAN, b \in BOOLEAN, n \in {1, 6}, z \in {0, 2}}


CompareValues ==
    {NumericValue(1), NumericValue(2), BoolValue(TRUE), BoolValue(FALSE),
     StringValue(<<"s", "1">>), StringValue(<<"s", "2">>)}

CompareDatas ==
    {[n \in {"var", "var2"} |-> IF n = "var" THEN v ELSE w] :
        v \in CompareValues, w \in {StringValue(<<"s", "1">>), NumericValue(1)}}


\* 922337203685477580 is INT64_MAX / 10
Int64Datas ==
    {[n \in {"int64"} |-> NumericValue(v)] : v \in {INT64_MAX \div 10, INT_MAX + 1, 1}}


DivideDatas ==
    {ConditionData(TRUE, TRUE, n, z) :
        n \in {6, 0 - INT_MAX - 1, 0 - INT64_MAX - 1}, z \in {0, 2, 0 - 1}}


ModifierDatas ==
    {NoData} \cup {[n \in {"v"} |-> v] : v \in {StringValue(<<"a", "B">>), NumericValue(1)}}


\* v is empty or has bytes; the fallback value is bound as well
DefaultDatas ==
    {[n \in {"v", "fallback"} |-> IF n = "v" THEN StringValue(v) ELSE StringValue(<<"d">>)] :
        v \in {<<>>, <<"a">>}}

EscapeDatas ==
    {[n \in {"v"} |-> StringValue(v)] : v \in {<<"<", "b", ">">>, <<"a", "&", "\"">>, <<"a">>}}

\* a date with a timestamp of its own, and one that prints the current time
DateDatas == {[n \in {"date"} |-> DateValue(<<"@", "%", "s">>, ts)] : ts \in {0, 15}}

\* no bindings, and every truth value of $a, $b and $z
ChainDatas ==
    {NoData} \cup {ConditionData(a, b, 1, z) : a \in BOOLEAN, b \in BOOLEAN, z \in {0, 2}}

Cases ==
    (LoopTemplates \X LoopDatas) \cup (AssignTemplates \X AssignDatas)
        \cup (ConditionTemplates \X ConditionDatas)
        \cup (ChainTemplates \X ChainDatas)
        \cup (LiteralTemplates \X {NoData})
        \cup (CompareTemplates \X CompareDatas)
        \cup (MixedTemplates \X {NoData})
        \cup (Int64Templates \X Int64Datas)
        \cup (DivideTemplates \X DivideDatas)
        \cup (ModifierTemplates \X ModifierDatas)
        \cup ({T_ModifiersLiteral} \X {NoData})
        \cup (DefaultTemplates \X DefaultDatas)
        \cup LiteralCases
        \cup (EscapeTemplates \X EscapeDatas)
        \cup (DateTemplates \X DateDatas)

(***************************************************************************)
(* Modifiers                                                               *)
(***************************************************************************)
\* the value the application's modifier falls back to; the application
\* owns it and has bound it in its Data as well
Fallback == StringValue(<<"d">>)

\* Data::Data registers the two built-in modifiers; with Data::modifier the
\* application has registered one of its own, "default"
Data_modifier(name) ==
    IF name \in {"toupper", "tolower", "default"}
    THEN [k |-> "Modifier", name |-> name]
    ELSE nullptr

UpperChar(c) ==
    CASE c = "a" -> "A" [] c = "b" -> "B" [] c = "d" -> "D" [] c = "o" -> "O" [] OTHER -> c

LowerChar(c) ==
    CASE c = "A" -> "a" [] c = "B" -> "b" [] c = "D" -> "d" [] c = "N" -> "n" [] OTHER -> c

\* the modifier returns the object it was given
ReturnsInput(modifier, input) == modifier.name = "default" /\ Value_size(input) > 0

\* the built-in modifiers make a new string value from the input's string;
\* "default" returns its input when that has bytes and the application's
\* fallback value otherwise, and makes no value of its own
Modifier_modify(modifier, input) ==
    LET str == Value_toString(input) IN
    IF modifier.name = "default"
    THEN (IF ReturnsInput(modifier, input) THEN input ELSE Fallback)
    ELSE StringValue([i \in 1..Len(str) |->
            IF modifier.name = "toupper" THEN UpperChar(str[i]) ELSE LowerChar(str[i])])

\* _destroy_later[modifier].insert(value)
Handler_destroyValue(dl, modifier, value) ==
    [m \in (DOMAIN dl) \cup {modifier} |->
        IF m = modifier
        THEN (IF m \in DOMAIN dl THEN dl[m] ELSE {}) \cup {value}
        ELSE dl[m]]

\* output and value are pointers: the built-in modifiers always return an
\* object of their own, and the fallback value is no modifier's input
smart_tpl_modify_variable(dl, modifier_ptr, variable) ==
    IF modifier_ptr = nullptr \/ variable = nullptr
    THEN [ret |-> variable, dl |-> dl]
    ELSE LET output == Modifier_modify(modifier_ptr, variable)
         IN  IF ~ReturnsInput(modifier_ptr, variable)
             THEN [ret |-> output, dl |-> Handler_destroyValue(dl, modifier_ptr, output)]
             ELSE [ret |-> output, dl |-> dl]

(***************************************************************************)
(* Run time                                                                *)
(***************************************************************************)
NoCall == [fn |-> "none"]

\* the running thread is in no method of a shared value
NotInside == [method |-> "none"]

\* the function the executor runs
Executor_function(ex, tree) == IF ex = "Library" THEN Library(tree) ELSE Bytecode(tree)

Val(o) == IF o[1] = "c" THEN o[2] ELSE regs[o[2]]

LabelPos(l) == CHOOSE p \in 1..Len(code) : code[p].op = "label" /\ code[p].label = l

Event(fn, args, ret, lv, its, buf) ==
    [pc |-> pc, fn |-> fn, args |-> args, ret |-> ret,
     lv |-> lv, its |-> its, out |-> Len(buf)]

Running == phase = "running" /\ pc <= Len(code) /\ steps < MaxSteps

Calling(fn) == Running /\ code[pc].op = "call" /\ code[pc].fn = fn

Arg(i) == Val(code[pc].args[i])

\* what every instruction leaves alone
Frame == UNCHANGED <<tpl, data, outencoding, now, thread, parked, executor, phase, code, results, abi>>

Return(ret) == regs' = [regs EXCEPT ![code[pc].dst] = ret]

Init ==
    /\ \E c \in Cases : tpl = c[1] /\ data = c[2]
    /\ outencoding \in IF tpl \in EscapeTemplates THEN {"raw", "html"} ELSE {"raw"}
    /\ now = 1
    /\ thread = 1
    /\ parked = <<>>
    /\ executor = "Bytecode"
    /\ code = Bytecode(tpl).code
    /\ phase = "idle"
    /\ pc = 1
    /\ regs = <<>>
    /\ _buffer = <<>>
    /\ _local_values = NoData
    /\ _iterator_stack = <<>>
    /\ _managed_local_values = <<>>
    /\ _destroy_later = NoneToDestroy
    /\ _failed = FALSE
    /\ DateValue_buffer = <<>>
    /\ inside = NotInside
    /\ results = <<>>
    /\ trace = <<>>
    /\ steps = 0
    /\ abi = NoCall

\* what a thread holds: its position in the function and its Handler
Context ==
    [phase |-> phase, pc |-> pc, regs |-> regs, _buffer |-> _buffer,
     _local_values |-> _local_values, _iterator_stack |-> _iterator_stack,
     _managed_local_values |-> _managed_local_values, _destroy_later |-> _destroy_later,
     _failed |-> _failed, inside |-> inside, trace |-> trace, steps |-> steps]

\* a thread that has not called process
IdleContext ==
    [phase |-> "idle", pc |-> 1, regs |-> <<>>, _buffer |-> <<>>,
     _local_values |-> NoData, _iterator_stack |-> <<>>,
     _managed_local_values |-> <<>>, _destroy_later |-> NoneToDestroy,
     _failed |-> FALSE, inside |-> NotInside, trace |-> <<>>, steps |-> 0]

\* the process calls begun on this executor: the ones that ended and the
\* ones other threads are in
Started ==
    Cardinality({i \in 1..Len(results) : results[i].executor = executor})
        + Cardinality({t \in DOMAIN parked : parked[t].phase = "running"})

\* a process call that renders with the Handler of the call before it
Template_process_SameHandler ==
    /\ phase \in {"idle", "finished", "thrown"}
    /\ Started < MaxRenders
    /\ Executor_function(executor, tpl).err = ""
    /\ phase' = "running"
    /\ pc' = 1
    /\ regs' = [i \in 1..Executor_function(executor, tpl).nv |-> 0]
    /\ inside' = NotInside
    /\ trace' = <<>>
    /\ steps' = 0
    /\ UNCHANGED <<tpl, data, outencoding, now, thread, parked, executor, code, results, abi,
                   _buffer, _local_values, _iterator_stack, _managed_local_values,
                   _destroy_later, _failed, DateValue_buffer>>

\* Template::process: a new Handler, then the executor's function
Template_process ==
    /\ phase \in {"idle", "finished", "thrown"}
    /\ Started < MaxRenders
    /\ Executor_function(executor, tpl).err = ""
    /\ phase' = "running"
    /\ pc' = 1
    /\ regs' = [i \in 1..Executor_function(executor, tpl).nv |-> 0]
    /\ _buffer' = <<>>
    /\ _local_values' = NoData
    /\ _iterator_stack' = <<>>
    /\ _managed_local_values' = <<>>
    /\ _destroy_later' = NoneToDestroy
    /\ _failed' = FALSE
    /\ inside' = NotInside
    /\ UNCHANGED DateValue_buffer
    /\ trace' = <<>>
    /\ steps' = 0
    /\ UNCHANGED <<tpl, data, outencoding, now, thread, parked, executor, code, results, abi>>


\* the generator threw while the executor was built: the constructor of the
\* template throws, and there is no template to process or to compile
Template_throws ==
    /\ phase = "idle"
    /\ Executor_function(executor, tpl).err # ""
    /\ phase' = "uncompiled"
    /\ results' = Append(results, [executor |-> executor, thrown |-> TRUE, output |-> <<>>,
                                   what |-> Executor_function(executor, tpl).err])
    /\ UNCHANGED <<tpl, data, outencoding, now, thread, parked, executor, code, pc, regs, _buffer, _local_values,
                   _iterator_stack, _managed_local_values, _destroy_later, _failed, DateValue_buffer, inside, trace,
                   steps, abi>>

\* the function returned: process throws when the Handler is in failed mode
\* and returns the Handler's output otherwise
Template_process_return ==
    /\ phase = "running" /\ pc = Len(code) + 1
    /\ phase' = IF _failed THEN "thrown" ELSE "finished"
    /\ results' = Append(results,
                         IF _failed
                         THEN [executor |-> executor, thrown |-> TRUE,
                               output |-> <<>>, what |-> "RunTimeError"]
                         ELSE [executor |-> executor, thrown |-> FALSE,
                               output |-> _buffer, what |-> ""])
    /\ UNCHANGED <<tpl, data, outencoding, now, thread, parked, executor, code, pc, regs, _buffer, _local_values,
                   _iterator_stack, _managed_local_values, _destroy_later, _failed, DateValue_buffer, inside, trace,
                   steps, abi>>

\* the test compiles the template into a shared library and loads that
Template_library ==
    /\ phase \in {"finished", "thrown"} /\ executor = "Bytecode"
    /\ \A t \in DOMAIN parked : parked[t].phase # "running"
    /\ executor' = "Library"
    /\ code' = Library(tpl).code
    /\ phase' = "idle"
    /\ trace' = <<>>
    /\ parked' = [t \in DOMAIN parked |-> IdleContext]
    /\ UNCHANGED <<tpl, data, outencoding, now, thread, pc, regs, _buffer, _local_values, _iterator_stack,
                   _managed_local_values, _destroy_later, _failed, DateValue_buffer, inside, results, steps, abi>>

Step(newpc, ev) ==
    /\ pc' = newpc
    /\ steps' = steps + 1
    /\ trace' = IF ev = NoCall THEN trace ELSE Append(trace, ev)
    /\ Frame

do_write ==
    /\ Calling("smart_tpl_write")
    /\ _buffer' = Handler_write(_buffer, Arg(1), Arg(2))
    /\ Return(0)
    /\ UNCHANGED <<_local_values, _iterator_stack, _managed_local_values, _destroy_later, _failed, DateValue_buffer, inside>>
    /\ Step(pc + 1, Event("smart_tpl_write", <<Arg(1), Arg(2)>>, 0,
                          _local_values, _iterator_stack, _buffer'))

do_output ==
    /\ Calling("smart_tpl_output") /\ Arg(1).k # "DateValue"
    /\ _buffer' = Handler_write(_buffer, Value_toString(Arg(1)), Value_size(Arg(1)))
    /\ Return(0)
    /\ UNCHANGED <<_local_values, _iterator_stack, _managed_local_values, _destroy_later, _failed, DateValue_buffer, inside>>
    /\ Step(pc + 1, Event("smart_tpl_output", <<Arg(1)>>, 0,
                          _local_values, _iterator_stack, _buffer'))

\* another thread is in the middle of the assignment to DateValue::_buffer
OthersAssigning == \E t \in DOMAIN parked : parked[t].inside.method = "initializeDate"

\* a std::string read or written while another thread assigns to it is a
\* data race: the characters that arrive are any prefix of the string
Torn(str) == {SubSeq(str, 1, n) : n \in 0..Len(str)}

\* smart_tpl_output of a DateValue, up to the assignment to _buffer in
\* initializeDate: a value with a timestamp returns early when _buffer is
\* filled, and the string is formatted and assigned otherwise
do_output_initializeDate ==
    /\ Calling("smart_tpl_output") /\ Arg(1).k = "DateValue"
    /\ inside = NotInside
    /\ \E filled \in IF OthersAssigning THEN BOOLEAN ELSE {DateValue_buffer # <<>>} :
        inside' = IF Arg(1).timestamp # 0 /\ filled
                  THEN [method |-> "toString"]
                  ELSE [method |-> "initializeDate",
                        buf |-> strftime(Arg(1).format, DateValue_time(Arg(1)))]
    /\ UNCHANGED <<tpl, data, outencoding, now, thread, parked, executor, phase, code, pc,
                   regs, _buffer, _local_values, _iterator_stack, _managed_local_values,
                   _destroy_later, _failed, DateValue_buffer, results, trace, steps, abi>>

\* the rest of smart_tpl_output of a DateValue: the assignment to _buffer
\* ends, toString returns a copy of _buffer and the Handler writes it
do_output_DateValue ==
    /\ Calling("smart_tpl_output") /\ Arg(1).k = "DateValue"
    /\ inside # NotInside
    /\ \E assigned \in IF inside.method = "toString" THEN {DateValue_buffer}
                        ELSE IF OthersAssigning THEN Torn(inside.buf) ELSE {inside.buf} :
        \E str \in IF OthersAssigning THEN Torn(assigned) ELSE {assigned} :
            /\ DateValue_buffer' = assigned
            /\ _buffer' = Handler_write(_buffer, str, Len(str))
            /\ Step(pc + 1, Event("smart_tpl_output", <<Arg(1), str>>, 0,
                                  _local_values, _iterator_stack, _buffer'))
    /\ inside' = NotInside
    /\ Return(0)
    /\ UNCHANGED <<_local_values, _iterator_stack, _managed_local_values, _destroy_later,
                   _failed>>

do_variable ==
    /\ Calling("smart_tpl_variable")
    /\ Return(smart_tpl_variable(_local_values, data, Arg(1)))
    /\ UNCHANGED <<_buffer, _local_values, _iterator_stack, _managed_local_values, _destroy_later, _failed, DateValue_buffer, inside>>
    /\ Step(pc + 1, Event("smart_tpl_variable", <<Arg(1)>>,
                          smart_tpl_variable(_local_values, data, Arg(1)),
                          _local_values, _iterator_stack, _buffer))

do_member_iter ==
    /\ Calling("smart_tpl_member_iter")
    /\ LET r == Handler_iterate(_local_values, _iterator_stack, Arg(1), Arg(2), Arg(3)) IN
        /\ _local_values' = r.lv
        /\ _iterator_stack' = r.its
        /\ Return(IF r.ret THEN 1 ELSE 0)
        /\ Step(pc + 1, Event("smart_tpl_member_iter", <<Arg(1), Arg(2), Arg(3)>>,
                              IF r.ret THEN 1 ELSE 0, r.lv, r.its, _buffer))
    /\ UNCHANGED <<_buffer, _managed_local_values, _destroy_later, _failed, DateValue_buffer, inside>>

do_to_numeric ==
    /\ Calling("smart_tpl_to_numeric")
    /\ Return(Value_toNumeric(Arg(1)))
    /\ UNCHANGED <<_buffer, _local_values, _iterator_stack, _managed_local_values, _destroy_later, _failed, DateValue_buffer, inside>>
    /\ Step(pc + 1, Event("smart_tpl_to_numeric", <<Arg(1)>>, Value_toNumeric(Arg(1)),
                          _local_values, _iterator_stack, _buffer))

do_to_boolean ==
    /\ Calling("smart_tpl_to_boolean")
    /\ Return(IF Value_toBoolean(Arg(1)) THEN 1 ELSE 0)
    /\ UNCHANGED <<_buffer, _local_values, _iterator_stack, _managed_local_values, _destroy_later, _failed, DateValue_buffer, inside>>
    /\ Step(pc + 1, Event("smart_tpl_to_boolean", <<Arg(1)>>,
                          IF Value_toBoolean(Arg(1)) THEN 1 ELSE 0,
                          _local_values, _iterator_stack, _buffer))


do_strcmp ==
    /\ Calling("smart_tpl_strcmp")
    /\ Return(smart_tpl_strcmp(Arg(1), Arg(2), Arg(3), Arg(4)))
    /\ UNCHANGED <<_buffer, _local_values, _iterator_stack, _managed_local_values, _destroy_later, _failed, DateValue_buffer, inside>>
    /\ Step(pc + 1, Event("smart_tpl_strcmp", <<Arg(1), Arg(2), Arg(3), Arg(4)>>,
                          smart_tpl_strcmp(Arg(1), Arg(2), Arg(3), Arg(4)),
                          _local_values, _iterator_stack, _buffer))


\* smart_tpl_modifier: Handler::modifier asks the Data
do_modifier ==
    /\ Calling("smart_tpl_modifier")
    /\ Return(Data_modifier(Arg(1)))
    /\ UNCHANGED <<_buffer, _local_values, _iterator_stack, _managed_local_values, _destroy_later, _failed, DateValue_buffer, inside>>
    /\ Step(pc + 1, Event("smart_tpl_modifier", <<Arg(1)>>, Data_modifier(Arg(1)),
                          _local_values, _iterator_stack, _buffer))

do_modify_variable ==
    /\ Calling("smart_tpl_modify_variable")
    /\ LET r == smart_tpl_modify_variable(_destroy_later, Arg(1), Arg(2)) IN
        /\ _destroy_later' = r.dl
        /\ Return(r.ret)
        /\ Step(pc + 1, Event("smart_tpl_modify_variable", <<Arg(1), Arg(2)>>, r.ret,
                              _local_values, _iterator_stack, _buffer))
    /\ UNCHANGED <<_buffer, _local_values, _iterator_stack, _managed_local_values, _failed,
                   DateValue_buffer, inside>>

\* a Handler that deletes the value a name was bound to when the name is
\* assigned again
do_assigned_DeletesOld(fn, value, key, made) ==
    /\ _local_values' = Handler_assign(_local_values, value, key)
    /\ _managed_local_values' =
            SelectSeq(_managed_local_values,
                      LAMBDA v : ~(key \in DOMAIN _local_values /\ _local_values[key] = v))
                \o made
    /\ Return(0)
    /\ UNCHANGED <<_buffer, _iterator_stack, _destroy_later, _failed, DateValue_buffer, inside>>
    /\ Step(pc + 1, Event(fn, <<value, key>>, 0, _local_values', _iterator_stack, _buffer))

\* the assign callbacks; made is the value the Handler creates and manages
do_assigned(fn, value, key, made) ==
    /\ _local_values' = Handler_assign(_local_values, value, key)
    /\ _managed_local_values' = _managed_local_values \o made
    /\ Return(0)
    /\ UNCHANGED <<_buffer, _iterator_stack, _destroy_later, _failed, DateValue_buffer, inside>>
    /\ Step(pc + 1, Event(fn, <<value, key>>, 0, _local_values', _iterator_stack, _buffer))

do_assign ==
    /\ Calling("smart_tpl_assign")
    /\ do_assigned("smart_tpl_assign", Arg(1), Arg(2), <<>>)

\* the JIT passes the value as the signature of the callback declares it, a
\* jit_type_sys_int; C code passes a long
do_assign_numeric ==
    /\ Calling("smart_tpl_assign_numeric")
    /\ LET value == IF executor = "Bytecode" THEN sys_int(Arg(1)) ELSE Arg(1) IN
       do_assigned("smart_tpl_assign_numeric", NumericValue(value), Arg(2),
                   <<NumericValue(value)>>)

do_assign_boolean ==
    /\ Calling("smart_tpl_assign_boolean")
    /\ do_assigned("smart_tpl_assign_boolean", BooleanValue(Arg(1) = 1), Arg(2), <<>>)

do_assign_string ==
    /\ Calling("smart_tpl_assign_string")
    /\ do_assigned("smart_tpl_assign_string", StringValue(SubSeq(Arg(1), 1, Arg(2))), Arg(3),
                   <<StringValue(SubSeq(Arg(1), 1, Arg(2)))>>)

Handler_unchanged ==
    UNCHANGED <<_buffer, _local_values, _iterator_stack, _managed_local_values, _destroy_later, _failed, DateValue_buffer, inside>>

\* falling through a label
insn_label ==
    /\ Running /\ code[pc].op = "label"
    /\ UNCHANGED regs /\ Handler_unchanged
    /\ Step(pc + 1, Event("label", <<code[pc].label>>, 0,
                          _local_values, _iterator_stack, _buffer))

insn_branch ==
    /\ Running /\ code[pc].op = "branch"
    /\ UNCHANGED regs /\ Handler_unchanged
    /\ Step(LabelPos(code[pc].label) + 1, NoCall)

insn_branch_if ==
    /\ Running /\ code[pc].op = "branch_if"
    /\ UNCHANGED regs /\ Handler_unchanged
    /\ Step(IF Val(code[pc].v) # 0 THEN LabelPos(code[pc].label) + 1 ELSE pc + 1, NoCall)

insn_branch_if_not ==
    /\ Running /\ code[pc].op = "branch_if_not"
    /\ UNCHANGED regs /\ Handler_unchanged
    /\ Step(IF Val(code[pc].v) = 0 THEN LabelPos(code[pc].label) + 1 ELSE pc + 1, NoCall)

insn_store ==
    /\ Running /\ code[pc].op = "store"
    /\ Return(Val(code[pc].v))
    /\ Handler_unchanged
    /\ Step(pc + 1, NoCall)


\* l == r, l != r, l > r on two jit values: 1 or 0
insn_compare ==
    /\ Running /\ code[pc].op \in {"eq", "ne", "gt"}
    /\ LET l == Val(code[pc].l)
           r == Val(code[pc].r)
       IN  Return(IF CASE code[pc].op = "eq" -> l = r
                       [] code[pc].op = "ne" -> l # r
                       [] code[pc].op = "gt" -> l > r
                  THEN 1 ELSE 0)
    /\ Handler_unchanged
    /\ Step(pc + 1, NoCall)

\* C-style integer division, rounding towards zero
Quotient(l, r) ==
    IF (l < 0) = (r < 0)
    THEN (IF l < 0 THEN 0 - l ELSE l) \div (IF r < 0 THEN 0 - r ELSE r)
    ELSE 0 - ((IF l < 0 THEN 0 - l ELSE l) \div (IF r < 0 THEN 0 - r ELSE r))

\* the bits of the value an operand holds: a literal is an int, a
\* temporary holds the numeric_t a callback returned
Width(o) == IF o[1] = "c" THEN IntBits ELSE LongBits

\* the builtin exception the instruction at p raises in this state, "none"
\* when it raises none: a division by zero, and the division of the minimum
\* integer by -1
ExceptionAt(p) ==
    IF code[p].op # "div" THEN "none"
    ELSE LET l == Val(code[p].l)
             r == Val(code[p].r)
             bits == IF Width(code[p].l) > Width(code[p].r)
                     THEN Width(code[p].l) ELSE Width(code[p].r)
         IN  IF r = 0 THEN "JIT_RESULT_DIVISION_BY_ZERO"
             ELSE IF r = 0 - 1 /\ l = 0 - 2^(bits - 1) THEN "JIT_RESULT_ARITHMETIC"
             ELSE "none"

insn_div ==
    /\ Running /\ code[pc].op = "div" /\ ExceptionAt(pc) = "none"
    /\ Return(Quotient(Val(code[pc].l), Val(code[pc].r)))
    /\ Handler_unchanged
    /\ Step(pc + 1, NoCall)

\* the exception types libjit has
ExceptionTypes ==
    {"JIT_RESULT_OVERFLOW", "JIT_RESULT_ARITHMETIC", "JIT_RESULT_DIVISION_BY_ZERO",
     "JIT_RESULT_COMPILE_ERROR", "JIT_RESULT_OUT_OF_MEMORY", "JIT_RESULT_NULL_REFERENCE",
     "JIT_RESULT_NULL_FUNCTION", "JIT_RESULT_CALLED_NESTED", "JIT_RESULT_OUT_OF_BOUNDS",
     "JIT_RESULT_UNDEFINED_LABEL", "JIT_RESULT_OK", "JIT_RESULT_other"}

\* a handler that returns to libjit for the types it does not know
Bytecode_jit_exception_handler_KnownOnly(exception_type) ==
    IF exception_type \in {"JIT_RESULT_OVERFLOW", "JIT_RESULT_DIVISION_BY_ZERO"}
    THEN [throws |-> TRUE, what |-> exception_type]
    ELSE [throws |-> FALSE, what |-> ""]

\* Bytecode::jit_exception_handler: the message for the type, thrown as a
\* std::runtime_error; there is no path on which the handler returns
Bytecode_jit_exception_handler(exception_type) ==
    [throws |-> TRUE,
     what |->
        CASE exception_type = "JIT_RESULT_OVERFLOW" ->
                "Overflow during checked arithmetic operation"
          [] exception_type = "JIT_RESULT_ARITHMETIC" ->
                "Arithmetic exception (dividing the minimum integer by -1)"
          [] exception_type = "JIT_RESULT_DIVISION_BY_ZERO" -> "Division by zero"
          [] exception_type = "JIT_RESULT_COMPILE_ERROR" ->
                "Error during function compilation"
          [] exception_type = "JIT_RESULT_OUT_OF_MEMORY" -> "Out of memory"
          [] exception_type = "JIT_RESULT_NULL_REFERENCE" -> "Null pointer dereferenced"
          [] exception_type = "JIT_RESULT_NULL_FUNCTION" -> "Null function pointer called"
          [] exception_type = "JIT_RESULT_CALLED_NESTED" ->
                "Nested function called from non-nested context"
          [] exception_type = "JIT_RESULT_OUT_OF_BOUNDS" -> "Array index out of bounds"
          [] exception_type = "JIT_RESULT_UNDEFINED_LABEL" -> "Undefined label"
          [] exception_type = "JIT_RESULT_OK" -> "Uhm, success?"
          [] OTHER -> "Unknown exception"]

\* a render that returns what was written before the exception
jit_exception_handler_ReturnsOutput ==
    /\ Running /\ ExceptionAt(pc) # "none"
    /\ phase' = "finished"
    /\ results' = Append(results, [executor |-> executor, thrown |-> FALSE,
                                   output |-> _buffer, what |-> ""])
    /\ UNCHANGED <<tpl, data, outencoding, now, thread, parked, executor, code, pc, regs, trace, steps, abi>>
    /\ Handler_unchanged

\* an instruction raises a builtin exception: libjit calls the registered
\* handler.  When the handler throws, process is left by the exception; had
\* it returned, libjit would go on to its own handling, which ends the
\* process
jit_exception_handler ==
    /\ Running /\ ExceptionAt(pc) # "none"
    /\ LET h == Bytecode_jit_exception_handler(ExceptionAt(pc)) IN
        IF h.throws
        THEN /\ phase' = "thrown"
             /\ results' = Append(results, [executor |-> executor, thrown |-> TRUE,
                                            output |-> <<>>, what |-> h.what])
        ELSE /\ phase' = "exited"
             /\ results' = results
    /\ UNCHANGED <<tpl, data, outencoding, now, thread, parked, executor, code, pc, regs, trace, steps, abi>>
    /\ Handler_unchanged


\* time passes; only a DateValue reads the clock
tick ==
    /\ now < MaxTime
    /\ \E n \in DOMAIN data : data[n].k = "DateValue"
    /\ now' = now + 1
    /\ UNCHANGED <<tpl, data, outencoding, thread, parked, executor, phase, code, pc, regs,
                   _buffer, _local_values, _iterator_stack, _managed_local_values,
                   _destroy_later, _failed, DateValue_buffer, inside, results, trace,
                   steps, abi>>

Next ==
    \/ tick
    \/ Template_process
    \/ Template_throws
    \/ Template_process_return
    \/ Template_library
    \/ do_write
    \/ do_output
    \/ do_output_initializeDate
    \/ do_output_DateValue
    \/ do_variable
    \/ do_member_iter
    \/ do_to_numeric
    \/ do_to_boolean
    \/ do_strcmp
    \/ do_modifier
    \/ do_modify_variable
    \/ do_assign
    \/ do_assign_numeric
    \/ do_assign_boolean
    \/ do_assign_string
    \/ insn_label
    \/ insn_branch
    \/ insn_branch_if
    \/ insn_branch_if_not
    \/ insn_store
    \/ insn_compare
    \/ insn_div
    \/ jit_exception_handler

Spec == Init /\ [][Next]_vars

(***************************************************************************)
(* Threads.  Several threads call process on the same template with the    *)
(* same Data, each with a Handler of its own; the scheduler may switch     *)
(* between any two steps.                                                  *)
(***************************************************************************)
\* the templates the threads render: one of the cases above of each kind
ThreadCases ==
    (DateTemplates \X DateDatas)
        \cup ({T_AssigningInForEach, T_ForEachWithKeys}
                \X {LoopData(ListOf(2), TheMap, ListOf(1))})
        \cup ({T_AssignAgain} \X {NoData})
        \cup ({T_And} \X {ConditionData(TRUE, FALSE, 1, 2)})
        \cup ({T_IfDivideVariables}
                \X {ConditionData(TRUE, TRUE, 6, 0), ConditionData(TRUE, TRUE, 6, 2)})
        \cup ({T_Modifiers(<<"toupper", "tolower">>)}
                \X {[n \in {"v"} |-> StringValue(<<"a", "B">>)]})
        \cup ({T_StringComparisonEquals(<<"s">>, <<"s">>), T_NumericComparison(1, 2),
                T_ModifiersLiteral} \X {NoData})

InitThreads ==
    /\ \E c \in ThreadCases : tpl = c[1] /\ data = c[2]
    /\ outencoding = "raw"
    /\ now = 1
    /\ thread = 1
    /\ parked = [t \in 2..NThreads |-> IdleContext]
    /\ executor = "Bytecode"
    /\ code = Bytecode(tpl).code
    /\ phase = "idle"
    /\ pc = 1
    /\ regs = <<>>
    /\ _buffer = <<>>
    /\ _local_values = NoData
    /\ _iterator_stack = <<>>
    /\ _managed_local_values = <<>>
    /\ _destroy_later = NoneToDestroy
    /\ _failed = FALSE
    /\ DateValue_buffer = <<>>
    /\ inside = NotInside
    /\ results = <<>>
    /\ trace = <<>>
    /\ steps = 0
    /\ abi = NoCall

\* the scheduler takes the running thread off the processor and runs t
Thread_switch ==
    \E t \in DOMAIN parked :
        /\ thread' = t
        /\ parked' = [u \in (DOMAIN parked \ {t}) \cup {thread} |->
                        IF u = thread THEN Context ELSE parked[u]]
        /\ phase' = parked[t].phase
        /\ pc' = parked[t].pc
        /\ regs' = parked[t].regs
        /\ _buffer' = parked[t]._buffer
        /\ _local_values' = parked[t]._local_values
        /\ _iterator_stack' = parked[t]._iterator_stack
        /\ _managed_local_values' = parked[t]._managed_local_values
        /\ _destroy_later' = parked[t]._destroy_later
        /\ _failed' = parked[t]._failed
        /\ inside' = parked[t].inside
        /\ trace' = parked[t].trace
        /\ steps' = parked[t].steps
        /\ UNCHANGED <<tpl, data, outencoding, now, executor, code, DateValue_buffer,
                       results, abi>>

NextThreads ==
    \/ Next
    \/ Thread_switch

SpecThreads == InitThreads /\ [][NextThreads]_vars

(***************************************************************************)
(* The callbacks called directly, as generated code may call them          *)
(***************************************************************************)
ABINames == {"list", "map", "item", "1", "2", "bound", "none"}

ABIValues ==
    {empty, NumericValue(1), StringValue(<<"a", "b">>), BoolValue(TRUE), BoolValue(FALSE),
     BooleanValue(TRUE), BooleanValue(FALSE), ListOf(MaxLen), TheMap}

ABIModifiers == {"toupper", "tolower", "none"}

ABILocals == {NoData, [n \in {"item"} |-> NumericValue(1)], [n \in {"list"} |-> empty]}

InitABI ==
    /\ tpl = <<>>
    /\ outencoding = "raw"
    /\ now = 1
    /\ thread = 1
    /\ parked = <<>>
    /\ data \in LoopDatas \cup AssignDatas
    /\ executor = "Bytecode"
    /\ code = <<>>
    /\ phase = "idle"
    /\ pc = 1
    /\ regs = <<>>
    /\ _buffer = <<>>
    /\ _local_values \in ABILocals
    /\ _iterator_stack = <<>>
    /\ _managed_local_values = <<>>
    /\ _destroy_later = NoneToDestroy
    /\ _failed = FALSE
    /\ DateValue_buffer = <<>>
    /\ inside = NotInside
    /\ results = <<>>
    /\ trace = <<>>
    /\ steps = 0
    /\ abi = NoCall

\* one call on a fresh Handler
Called(fn, args, ret) ==
    /\ abi = NoCall
    /\ abi' = [fn |-> fn, args |-> args, ret |-> ret]
    /\ UNCHANGED <<tpl, data, outencoding, now, thread, parked, executor, phase, code, pc, regs, _buffer, _local_values,
                   _iterator_stack, _managed_local_values, results, trace, steps>>

abi_variable ==
    \E name \in ABINames :
        /\ Called("smart_tpl_variable", <<name>>, smart_tpl_variable(_local_values, data, name))
        /\ UNCHANGED <<_destroy_later, _failed, DateValue_buffer, inside>>

abi_member ==
    \E variable \in ABIValues, name \in {<<"1">>, <<"2">>, <<"x">>} :
        /\ Called("smart_tpl_member", <<variable, name>>, smart_tpl_member(variable, name))
        /\ UNCHANGED <<_destroy_later, _failed, DateValue_buffer, inside>>

abi_member_at ==
    \E variable \in ABIValues, position \in 0..MaxLen :
        /\ Called("smart_tpl_member_at", <<variable, position>>,
                  smart_tpl_member_at(variable, position))
        /\ UNCHANGED <<_destroy_later, _failed, DateValue_buffer, inside>>

abi_modify_variable ==
    \E name \in ABIModifiers, variable \in ABIValues :
        LET r == smart_tpl_modify_variable(_destroy_later, Data_modifier(name), variable) IN
        /\ Called("smart_tpl_modify_variable", <<Data_modifier(name), variable>>, r.ret)
        /\ _destroy_later' = r.dl
        /\ UNCHANGED <<_failed, DateValue_buffer, inside>>

abi_modify_numeric ==
    \E name \in ABIModifiers, value \in 0..MaxLen :
        /\ Called("smart_tpl_modify_numeric", <<Data_modifier(name), value>>,
                  smart_tpl_modify_numeric(Data_modifier(name), value))
        /\ UNCHANGED <<_destroy_later, _failed, DateValue_buffer, inside>>

abi_modify_string ==
    \E name \in ABIModifiers, value \in {<<>>, <<"a", "b">>} :
        /\ Called("smart_tpl_modify_string", <<Data_modifier(name), value>>,
                  smart_tpl_modify_string(Data_modifier(name), value))
        /\ UNCHANGED <<_destroy_later, _failed, DateValue_buffer, inside>>

abi_to_string ==
    \E variable \in ABIValues :
        /\ Called("smart_tpl_to_string", <<variable>>, Value_toString(variable))
        /\ UNCHANGED <<_destroy_later, _failed, DateValue_buffer, inside>>

abi_to_numeric ==
    \E variable \in ABIValues :
        /\ Called("smart_tpl_to_numeric", <<variable>>, Value_toNumeric(variable))
        /\ UNCHANGED <<_destroy_later, _failed, DateValue_buffer, inside>>

abi_to_boolean ==
    \E variable \in ABIValues :
        /\ Called("smart_tpl_to_boolean", <<variable>>,
                  IF Value_toBoolean(variable) THEN 1 ELSE 0)
        /\ UNCHANGED <<_destroy_later, _failed, DateValue_buffer, inside>>

abi_size ==
    \E variable \in ABIValues :
        /\ Called("smart_tpl_size", <<variable>>, Value_size(variable))
        /\ UNCHANGED <<_destroy_later, _failed, DateValue_buffer, inside>>

\* the callbacks that convert a value
Conversions ==
    {"smart_tpl_to_string", "smart_tpl_to_numeric", "smart_tpl_to_boolean", "smart_tpl_size"}

NextABI ==
    \/ abi_to_string
    \/ abi_to_numeric
    \/ abi_to_boolean
    \/ abi_size
    \/ abi_variable
    \/ abi_member
    \/ abi_member_at
    \/ abi_modify_variable
    \/ abi_modify_numeric
    \/ abi_modify_string

SpecABI == InitABI /\ [][NextABI]_vars

(***************************************************************************)
(* Properties                                                              *)
(***************************************************************************)
Finished(ex) == \E i \in 1..Len(results) : results[i].executor = ex

ResultOf(ex) == results[CHOOSE i \in 1..Len(results) : results[i].executor = ex]

\* the Data holds a DateValue without a timestamp, which prints the time of
\* the render
PrintsCurrentTime ==
    \E n \in DOMAIN data : data[n].k = "DateValue" /\ data[n].timestamp = 0

\* C1: for every template and Data, the render through the JIT executor and
\* the render through the shared library built from the C backend's output
\* give byte-identical output (and fail alike).  The two renders happen at
\* different times, so a Data that prints the time of the render is not
\* compared.
C1_BackendEquivalence ==
    (Finished("Bytecode") /\ Finished("Library") /\ ~PrintsCurrentTime) =>
        /\ ResultOf("Bytecode").thrown = ResultOf("Library").thrown
        /\ ResultOf("Bytecode").output = ResultOf("Library").output

\* C2: every callback that returns a value pointer to generated code returns
\* a non-null pointer, for every input.
C2_NeverNull == (abi # NoCall /\ abi.fn \notin Conversions) => abi.ret # nullptr

Events == 1..Len(trace)

IsCall(i, fn) == trace[i].fn = fn

\* a render fails only where the exception handler was entered
FailsOnlyAtDivision == phase = "thrown" => code[pc].op = "div"

Unbound(i) ==
    /\ trace[i].args[1] \notin DOMAIN trace[i].lv
    /\ trace[i].args[1] \notin DOMAIN data

\* C3: variable(name) returns the Handler's local binding if there is one,
\* otherwise the Data binding, otherwise the shared empty value; the output
\* of a variable bound in neither appends nothing and does not fail.
C3_VariableLookup ==
    /\ FailsOnlyAtDivision
    /\ \A i \in Events : IsCall(i, "smart_tpl_variable") =>
        LET name == trace[i].args[1]
            lv == trace[i].lv
        IN  /\ trace[i].ret = (IF name \in DOMAIN lv THEN lv[name]
                               ELSE IF name \in DOMAIN data THEN data[name]
                               ELSE empty)
            /\ (Unbound(i) /\ i < Len(trace) /\ IsCall(i + 1, "smart_tpl_output")) =>
                    trace[i + 1].out = trace[i].out

\* a finished render that read a name bound both locally and in Data, and
\* that wrote out a name bound nowhere
C3_Witness ==
    /\ phase = "finished"
    /\ \E i \in Events :
        /\ IsCall(i, "smart_tpl_variable")
        /\ trace[i].args[1] \in DOMAIN trace[i].lv
        /\ trace[i].args[1] \in DOMAIN data
        /\ trace[i].lv[trace[i].args[1]] # data[trace[i].args[1]]
    /\ \E i \in Events :
        /\ IsCall(i, "smart_tpl_variable") /\ Unbound(i)
        /\ i < Len(trace) /\ IsCall(i + 1, "smart_tpl_output")

\* what a callback call appended to the buffer
Chunk(ev) ==
    CASE ev.fn = "smart_tpl_write" -> SubSeq(ev.args[1], 1, ev.args[2])
      [] ev.fn = "smart_tpl_output" ->
            IF ev.args[1].k = "DateValue" THEN ev.args[2] ELSE Value_toString(ev.args[1])
      [] OTHER -> <<>>

RECURSIVE Chunks(_)
Chunks(t) == IF t = <<>> THEN <<>> ELSE Chunks(SubSeq(t, 1, Len(t) - 1)) \o Chunk(Last(t))

\* C4: the output buffer is append-only and in source order: every step of
\* a render leaves the old buffer a prefix of the new one, and the buffer is
\* the chunks of the write and output calls in the order they were executed.
C4_AppendOnly ==
    [][/\ (phase = "running" /\ phase' = "running") => IsPrefix(_buffer, _buffer')
       /\ phase' = "running" => _buffer' = Chunks(trace')]_vars

\* a finished render whose buffer was built by several write and output calls
C4_Witness ==
    /\ phase = "finished"
    /\ Len(_buffer) >= 6
    /\ \E i, j \in Events : IsCall(i, "smart_tpl_write") /\ IsCall(j, "smart_tpl_output")

\* position p holds the iteration call of a loop
LoopHead(p) ==
    /\ p >= 1 /\ p <= Len(code)
    /\ code[p].op = "call" /\ code[p].fn = "smart_tpl_member_iter"

\* event e is the entry into a loop: control fell through the loop's label
LoopEntry(e) == IsCall(e, "label") /\ LoopHead(trace[e].pc + 1)

\* event i is an iteration call of the loop entered at event e, before that
\* loop is entered again
LoopCall(e, i) ==
    /\ LoopEntry(e) /\ i > e
    /\ trace[i].pc = trace[e].pc + 1
    /\ \A k \in (e + 1)..i : trace[k].pc # trace[e].pc

\* the how-manieth iteration call of its loop event i is
LoopCount(e, i) == Cardinality({k \in (e + 1)..i : trace[k].pc = trace[i].pc})

FinalCall(e, i) == LoopCall(e, i) /\ trace[i].ret = 0

InductionNames(i) ==
    {trace[i].args[2]} \cup (IF trace[i].args[3] # "" THEN {trace[i].args[3]} ELSE {})

\* C6: when a foreach finishes, the bindings it made for its value and key
\* variables are gone from the local values (a name is bound after the loop
\* only as it was bound before it), every other local binding is unchanged,
\* and each induction name resolves after the loop to what it resolved to
\* before it.
C6_LoopScope ==
    \A e, x \in Events : FinalCall(e, x) =>
        /\ \A name \in InductionNames(x) :
                IF name \in DOMAIN trace[e].lv
                THEN name \in DOMAIN trace[x].lv /\ trace[x].lv[name] = trace[e].lv[name]
                ELSE name \notin DOMAIN trace[x].lv
        /\ \A name \in (DOMAIN trace[x - 1].lv) \ InductionNames(x) :
                name \in DOMAIN trace[x].lv /\ trace[x].lv[name] = trace[x - 1].lv[name]
        /\ DOMAIN trace[x].lv \subseteq DOMAIN trace[x - 1].lv
        /\ \A name \in InductionNames(x) :
                Handler_variable(trace[x].lv, data, name) = Handler_variable(trace[e].lv, data, name)

ElseTemplates == {T_ForEachElse, T_ForEachWithKeysElse}

\* C7: of a foreach with a foreachelse arm exactly one arm runs: the body
\* once per member when the source has members, otherwise the else body
\* once; a source bound to a string renders only the else body.
C7_ForeachElse ==
    tpl \in ElseTemplates =>
        \A r \in 1..Len(results) :
            LET n == Value_memberCount(data[tpl[1].var.name]) IN
            /\ ~results[r].thrown
            /\ results[r].output = (IF n >= 1 THEN [i \in 1..n |-> "b"] ELSE <<"e">>)

\* position q lies in the body of the loop whose iteration call is at p
InBody(p, q) == q > p + 1 /\ q < LabelPos(code[p + 1].label)

AssignCallbacks ==
    {"smart_tpl_assign", "smart_tpl_assign_numeric", "smart_tpl_assign_boolean",
     "smart_tpl_assign_string"}

\* event k assigns to the local variable name
Assigns(k, name) == trace[k].fn \in AssignCallbacks /\ trace[k].args[2] = name

LastAssign(i, name) ==
    CHOOSE k \in 1..(i - 1) :
        /\ Assigns(k, name)
        /\ \A m \in (k + 1)..(i - 1) : ~Assigns(m, name)

\* the names some foreach of the template binds
LoopNames == {"item", "sub", "key", "value"}

LeftOperand == data["a"].b

RightOperand ==
    IF tpl \in {T_And, T_Or} THEN data["b"].b
    ELSE Quotient(data["n"].n, data["z"].n) # 0

RightNames == IF tpl \in {T_And, T_Or} THEN {"b"} ELSE {"n", "z"}

\* the left operand alone fixes the result
LeftDecides == IF tpl \in {T_And, T_AndDivide} THEN ~LeftOperand ELSE LeftOperand

RightEvaluated ==
    \E i \in Events : IsCall(i, "smart_tpl_variable") /\ trace[i].args[1] \in RightNames

\* C10: in a && b, b is evaluated only if a is truthy; in a || b only if a
\* is falsy; the result is the logical and / or of the operands, and a
\* skipped right operand has no effect (its variables are not looked up, its
\* division by zero does not fail the render).
C10_ShortCircuit ==
    tpl \in {T_And, T_Or, T_AndDivide, T_OrDivide} =>
        /\ LeftDecides => (~RightEvaluated /\ phase # "thrown")
        /\ (~LeftDecides /\ phase \in {"finished", "thrown"}) => RightEvaluated
        /\ \A r \in 1..Len(results) :
            IF results[r].thrown
            THEN ~LeftDecides /\ data["z"].n = 0 /\ tpl \in {T_AndDivide, T_OrDivide}
            ELSE results[r].output =
                    (IF (IF tpl \in {T_And, T_AndDivide}
                         THEN LeftOperand /\ RightOperand
                         ELSE LeftOperand \/ RightOperand)
                     THEN <<"T">> ELSE <<"F">>)

\* the JIT render of {if $a && $n/$z} finished with a false and z zero: the
\* division that would have failed was skipped
C10_Witness ==
    /\ tpl = T_AndDivide /\ executor = "Bytecode" /\ phase = "finished"
    /\ ~LeftOperand /\ data["z"].n = 0
    /\ _buffer = <<"F">>

(***************************************************************************)
(* C11: if / elseif / else chains                                          *)
(***************************************************************************)
\* the conditions of a chain in source order, the text of each branch, and
\* the text of the else branch (empty when there is none)
ChainOf(t) ==
    CASE t = T_IfElse ->
            [conds |-> <<"a", "b">>, texts |-> <<"T", "F">>, else |-> <<>>]
      [] t = T_IfElseIfElse ->
            [conds |-> <<"a", "b">>, texts |-> <<"T", "F">>, else |-> <<"E">>]
      [] t = T_IfElseIfElseIf ->
            [conds |-> <<"a", "b", "z">>, texts |-> <<"T", "F", "G">>, else |-> <<>>]

\* the truth of $name in the data of this render
Truth(name) == Value_toBoolean(Handler_variable(NoData, data, name))

\* what the chain must render: the branch of the first true condition
ChainExpected(t) ==
    LET c == ChainOf(t)
        true == {i \in 1..Len(c.conds) : Truth(c.conds[i])}
    IN  IF true = {} THEN c.else
        ELSE <<c.texts[CHOOSE i \in true : \A j \in true : i <= j]>>

\* C11: an if / elseif / else chain renders exactly the branch of its first
\* true condition, the else branch when no condition is true and nothing
\* when there is no else branch either; never more than one branch
C11_IfChain ==
    tpl \in ChainTemplates =>
        /\ Cardinality({i \in 1..Len(trace) : trace[i].fn = "smart_tpl_write"}) <= 1
        /\ \A r \in 1..Len(results) :
               /\ ~results[r].thrown
               /\ results[r].output = ChainExpected(tpl)

\* a chain whose first condition is false and second is true was rendered
\* by both executors
C11_Witness ==
    /\ tpl = T_IfElseIfElse
    /\ Len(results) = 2
    /\ ~Truth("a") /\ Truth("b")
    /\ results[2].output = <<"F">>

(***************************************************************************)
(* C12, C13: comparing strings                                             *)
(***************************************************************************)
\* the template compares two string literals
ComparesStrings ==
    /\ Len(tpl) = 1 /\ tpl[1].s = "if"
    /\ tpl[1].expr.t \in {"eq", "ne"}
    /\ tpl[1].expr.left.t = "str" /\ tpl[1].expr.right.t = "str"

\* C12: a == b on two strings is true iff they have the same length and the
\* same bytes, and a != b is its negation, for every pair of strings
C12_StringEquality ==
    ComparesStrings =>
        \A r \in 1..Len(results) :
            /\ ~results[r].thrown
            /\ (results[r].output = <<"t">>) <=>
                   ((tpl[1].expr.t = "eq") <=>
                        (tpl[1].expr.left.value = tpl[1].expr.right.value))
            /\ results[r].output \in {<<"t">>, <<"f">>}

\* C13: the strcmp callback returns 0 when the two strings are equal and a
\* non-zero value when they differ in length or in content
C13_StrcmpZeroWhenEqual ==
    \A i \in 1..Len(trace) :
        trace[i].fn = "smart_tpl_strcmp" =>
            ((trace[i].ret = 0) <=>
                 (SubSeq(trace[i].args[1], 1, trace[i].args[2])
                      = SubSeq(trace[i].args[3], 1, trace[i].args[4])))

(***************************************************************************)
(* C14: comparing a variable with a literal or another variable            *)
(***************************************************************************)
\* what the comparison of the template is at run time, given the Data
CompareExpected ==
    LET var == Handler_variable(NoData, data, "var")
        var2 == Handler_variable(NoData, data, "var2")
    IN  CASE tpl = T_CompareVarConstantNumeric -> Value_toNumeric(var) = 1
          [] tpl = T_CompareVarConstantBoolean -> Value_toBoolean(var)
          [] tpl = T_CompareVarConstantString -> Value_toString(var) = <<"s", "1">>
          [] tpl = T_CompareVarVar -> Value_toString(var) = Value_toString(var2)

\* C14: a comparison of a variable with a literal or with another variable
\* compiles, and the template renders the true or the false branch as the
\* run-time value decides, instead of failing
C14_CompareVariable ==
    tpl \in CompareTemplates =>
        \A r \in 1..Len(results) :
            /\ ~results[r].thrown
            /\ results[r].output = IF CompareExpected THEN <<"t">> ELSE <<"f">>

(***************************************************************************)
(* C15: integers are 64 bits wide end to end                               *)
(***************************************************************************)
\* what the template renders when no integer is ever narrowed
Int64Expected ==
    LET int64 == Value_toNumeric(Handler_variable(NoData, data, "int64")) IN
    IF tpl = T_AssignInt64 THEN Decimal(int64)
    ELSE IF int64 > tpl[1].expr.right.value THEN <<"t">> ELSE <<"f">>

\* C15: integer literals, to_numeric results, numeric assignments and
\* comparisons are never truncated or wrapped to the width of an int, in
\* either backend: a variable wider than an int compares and is assigned
\* with its full value, and so does a literal wider than an int
C15_Int64 ==
    tpl \in Int64Templates =>
        \A r \in 1..Len(results) :
            /\ ~results[r].thrown
            /\ results[r].output = Int64Expected

\* the Int64 test itself: the variable holds INT64_MAX / 10 and is compared
\* with INT_MAX
Int64TestRenders ==
    (tpl = T_Int64(INT_MAX) /\ data["int64"] = NumericValue(INT64_MAX \div 10)) =>
        \A r \in 1..Len(results) : results[r].output = <<"t">>

Failed == phase = "thrown" /\ results # <<>> /\ results[Len(results)].thrown

ChainNames == tpl[1].var.modifiers

\* mn(...m2(m1(value))...), for registered modifiers
RECURSIVE Applied(_, _)
Applied(value, chain) ==
    IF chain = <<>> THEN value
    ELSE Applied(Modifier_modify(Data_modifier(Head(chain)), value), Tail(chain))

\* C18: applying a chain in which a named modifier is not registered in
\* Data is a runtime error surfaced from process
C18_UnregisteredModifier ==
    (tpl \in ModifierTemplates /\ ChainNames \in UnregisteredChains) =>
        \A r \in 1..Len(results) : results[r].thrown

Escaper_encode_char(c) ==
    CASE c = "<" -> <<"&", "l", "t", ";">>
      [] c = ">" -> <<"&", "g", "t", ";">>
      [] c = "&" -> <<"&", "a", "m", "p", ";">>
      [] c = "\"" -> <<"&", "q", "u", "o", "t", ";">>
      [] OTHER -> <<c>>

RECURSIVE Escaper_encode(_, _)
Escaper_encode(encoding, str) ==
    IF encoding = "raw" \/ str = <<>> THEN str
    ELSE Escaper_encode_char(Head(str)) \o Escaper_encode(encoding, Tail(str))

\* the value the template outputs
Outputted ==
    LET v == smart_tpl_variable(NoData, data, "v") IN
    IF tpl = T_EscapeFilter THEN Modifier_modify(Data_modifier("toupper"), v) ELSE v

\* C19: the output of a value appends the value's string passed through the
\* escaper of the encoding given to process, and the string unchanged when
\* the encoding is raw; raw template text is never escaped
C19_Escaping ==
    tpl \in EscapeTemplates =>
        \A r \in 1..Len(results) :
            /\ ~results[r].thrown
            /\ results[r].output =
                   <<"<">> \o Escaper_encode(outencoding, Value_toString(Outputted))

\* two process calls on the same executor
SameExecutor(i, j) ==
    /\ i \in 1..Len(results) /\ j \in 1..Len(results) /\ i # j
    /\ results[i].executor = results[j].executor

\* C21 as stated: for the same template, data and encoding, two calls to
\* process return byte-identical results (the same output, or the same
\* error), whatever the Data holds.
C21_Idempotent ==
    \A i, j \in 1..Len(results) : SameExecutor(i, j) => results[i] = results[j]

\* C21: unless the Data holds a DateValue that prints the current time, two
\* calls to process for the same template, data and encoding return
\* byte-identical results: what the Handler of one call wrote, bound,
\* iterated over or owned is not seen by the next call.
C21_IdempotentFixedTime == ~PrintsCurrentTime => C21_Idempotent

\* two renders of a loop that binds locals and assigns, both finished with
\* the same output
C21_Witness ==
    /\ tpl = T_AssigningInForEach
    /\ \E i, j \in 1..Len(results) :
            /\ SameExecutor(i, j)
            /\ ~results[i].thrown /\ results[i].output # <<>>
            /\ results[i] = results[j]

\* C22: process calls made by several threads on the same template, each
\* with a Handler of its own, return in every interleaving what a call
\* returns when it runs alone: all calls on one executor return the same
\* result (a DateValue that prints the current time aside, whose text depends
\* on the clock also when a call runs alone).
C22_ThreadsAgree == ~PrintsCurrentTime => C21_Idempotent

\* C23: a boolean value converts to "true" / "false", has size 4 / 5 (the
\* length of that string), converts to the number 1 / 0 and to the boolean
\* it holds, and has no members.
C23_BooleanConversions ==
    (abi.fn \in Conversions /\ abi.args[1].k \in {"BooleanValue", "BoolValue"}) =>
        LET v == abi.args[1] IN
        /\ abi.fn = "smart_tpl_to_string" =>
                abi.ret = IF v.b THEN <<"t", "r", "u", "e">> ELSE <<"f", "a", "l", "s", "e">>
        /\ abi.fn = "smart_tpl_size" =>
                abi.ret = (IF v.b THEN 4 ELSE 5) /\ abi.ret = Len(Value_toString(v))
        /\ abi.fn = "smart_tpl_to_numeric" => abi.ret = IF v.b THEN 1 ELSE 0
        /\ abi.fn = "smart_tpl_to_boolean" => abi.ret = IF v.b THEN 1 ELSE 0
        /\ Value_memberCount(v) = 0

\* the values a sequence holds
Range(seq) == {seq[i] : i \in 1..Len(seq)}

\* the call made a value: a numeric or string assignment
Creates(ev) == ev.fn \in {"smart_tpl_assign_numeric", "smart_tpl_assign_string"}

\* the call got a new value from a modifier
Modifies(ev) ==
    /\ ev.fn = "smart_tpl_modify_variable"
    /\ ev.args[1] # nullptr /\ ev.args[2] # nullptr /\ ev.ret # ev.args[2]

\* C24: every value the Handler creates during a render stays alive until
\* the Handler is destroyed: while the render runs, no step removes a value
\* from _managed_local_values or from _destroy_later, and the values made by
\* the numeric and string assignments and the modifier calls of the render so
\* far are all held there, also after their name was reassigned or erased.
C24_ValuesLive ==
    [][/\ (phase = "running" /\ phase' = "running") =>
             /\ IsPrefix(_managed_local_values, _managed_local_values')
             /\ \A mod \in DOMAIN _destroy_later :
                    /\ mod \in DOMAIN _destroy_later'
                    /\ _destroy_later[mod] \subseteq _destroy_later'[mod]
       /\ phase' = "running" =>
             \A i \in 1..Len(trace') :
                /\ Creates(trace'[i]) =>
                        trace'[i].args[1] \in Range(_managed_local_values')
                /\ Modifies(trace'[i]) =>
                        /\ trace'[i].args[1] \in DOMAIN _destroy_later'
                        /\ trace'[i].ret \in _destroy_later'[trace'[i].args[1]]]_vars

\* a render in which a name was assigned a number and then a string: the
\* number is bound to no name any more and is still held
C24_Witness ==
    /\ tpl = T_AssignAgain /\ phase = "running"
    /\ \E i \in 1..Len(_managed_local_values) :
            /\ _managed_local_values[i] = NumericValue(1)
            /\ \A n \in DOMAIN _local_values :
                    _local_values[n] # _managed_local_values[i]
    /\ \E n \in DOMAIN _local_values : _local_values[n] = StringValue(<<"a", "b">>)

\* a render in which a modifier made a value that is held for clean-up
C24_WitnessModifier ==
    /\ phase = "running"
    /\ \E i \in 1..Len(trace) : Modifies(trace[i])

\* the template is one {if l == r} or {if l != r} whose operands are not
\* both numeric, both strings or both booleans by their static types
Incomparable ==
    /\ Len(tpl) = 1 /\ tpl[1].s = "if" /\ tpl[1].expr.t \in {"eq", "ne"}
    /\ ~\E type \in {"Numeric", "String", "Boolean"} :
            /\ Expression_type(tpl[1].expr.left) = type
            /\ Expression_type(tpl[1].expr.right) = type

Emitted(n) == Bytecode(SubSeq(tpl, 1, n))

\* the entries that method as of expression e leaves on an empty stack
Left(e, as) == Len(Generate(NewFunction("Bytecode"), e, as).stack)

\* the expressions a statement hands to the generator
ExpressionsOf(st) ==
    CASE st.s \in {"if", "assign", "write"} -> {st.expr}
      [] st.s = "output" -> {st.var}
      [] st.s = "foreach" -> {st.var}
      [] OTHER -> {}

\* C26: in the JIT backend pop() is never called on an empty stack, the
\* stack is empty after every statement of the template has been emitted,
\* and the hooks leave their documented number of entries: 2 for a string,
\* 1 for a number or boolean (literal, variable, arithmetic, comparison,
\* boolean operator), 1 for a variable pointer and 1 for a modifier chain,
\* a modifier chain on an expression that is not a variable included.
C26_StackDiscipline ==
    /\ \A n \in 0..Len(tpl) :
            /\ Emitted(n).err # "_stack is empty"
            /\ Emitted(n).err = "" => Emitted(n).stack = <<>>
    /\ \A n \in 1..Len(tpl) : \A e \in ExpressionsOf(tpl[n]) :
            /\ e.t \in {"var", "str", "num", "bool"} => Left(e, "string") = 2
            /\ (e.t # "filter" /\ Emitted(n).err = "") =>
                    Left(e, "numeric") = 1 /\ Left(e, "boolean") = 1
            /\ e.t \in {"var", "filter"} => Left(e, "pointer") = 1

\* how many of the iteration calls of the loop entered at event e, up to
\* event i, said go on
TrueCount(e, i) ==
    Cardinality({k \in (e + 1)..i : trace[k].pc = trace[i].pc /\ trace[k].ret = 1})

LastAt(p) == CHOOSE i \in Events : trace[i].pc = p /\ \A k \in Events : k > i => trace[k].pc # p

\* the loops whose body is executing: the last iteration call said go on
ActiveLoops ==
    {p \in 1..Len(code) :
        /\ LoopHead(p)
        /\ \E i \in Events : trace[i].pc = p
        /\ trace[LastAt(p)].ret = 1}

\* the depth of an active loop: an enclosing loop starts earlier in the code
Depth(p) == Cardinality({q \in ActiveLoops : q <= p})

\* C28: during a render the depth of the iterator stack is the number of
\* foreach loops whose body is executing, entry d belongs to the active loop
\* at depth d (the top entry to the innermost), every entry's index is less
\* than the member count of its loop's source, and the stack is empty when
\* the render has completed.
C28_StackMirrorsLoops ==
    phase \in {"running", "finished"} =>
        /\ Len(_iterator_stack) = Cardinality(ActiveLoops)
        /\ \A p \in ActiveLoops :
                /\ _iterator_stack[Depth(p)].first = trace[LastAt(p)].args[2]
                /\ _iterator_stack[Depth(p)].second < Value_memberCount(trace[LastAt(p)].args[1])
        /\ phase = "finished" => _iterator_stack = <<>>

\* the modifier made the value it returned for this input
NewlyCreated(modifier, input) == ~ReturnsInput(modifier, input) /\ modifier.name # "default"

\* the values the Handler will hand to cleanup when it is destroyed
Recorded == UNION {_destroy_later[m] : m \in DOMAIN _destroy_later}

\* C29: only values that a modifier newly created are recorded for cleanup
\* at the Handler's destruction: a value recorded by a call of
\* smart_tpl_modify_variable is not null, is not a value bound in Data, and
\* was made by the modifier of that call, so that the destructor cleans up
\* every recorded value exactly once.
C29_OnlyCreatedRecorded ==
    /\ nullptr \notin Recorded
    /\ \A i \in Events :
            (/\ IsCall(i, "smart_tpl_modify_variable")
             /\ trace[i].args[1] # nullptr
             /\ trace[i].args[1] \in DOMAIN _destroy_later
             /\ trace[i].ret \in _destroy_later[trace[i].args[1]]) =>
                /\ NewlyCreated(trace[i].args[1], trace[i].args[2])
                /\ \A name \in DOMAIN data : trace[i].ret # data[name]

\* the texts one side of a literal case can write
Sides == {<<>>, <<"T">>, <<"F">>, <<"t", "r", "u", "e">>, <<"f", "a", "l", "s", "e">>}

\* C30: a literal and a variable holding the same value convert
\* identically: a string literal as a condition or as a number gives what a
\* string variable with the same bytes gives, and a boolean literal written
\* to the output gives the text of a boolean variable with the same value,
\* so both sides of the = are the same text.
C30_LiteralAsVariable ==
    (phase = "finished" /\ <<tpl, data>> \in LiteralCases) =>
        \E side \in Sides : _buffer = side \o <<"=">> \o side

====
